---- MODULE Spec2Model ----
(***************************************************************************)
(* A model of axe: the route evaluator (axe/route_evaluator.py), the       *)
(* configuration assembler (axe/config_manager.py) and the command line    *)
(* (axe/cli.py, axe/tree.py).                                              *)
(*                                                                         *)
(* Four specifications share the module's variables:                       *)
(*   SpecEval   - a RouteEvaluator built from a route document, on which   *)
(*                evaluate_alert is called with alerts;                    *)
(*   SpecApi    - a fresh ConfigManager on which the registry and the      *)
(*                reference validator are called directly, as the unit     *)
(*                tests do;                                                *)
(*   SpecRender - one render() pass over a base file and fragment files;   *)
(*   SpecCli    - one run of the axe command, from main() to the exit of   *)
(*                the process.                                             *)
(***************************************************************************)
EXTENDS Integers, Sequences, FiniteSets, TLC

VARIABLES
    \* --- RouteEvaluator ---------------------------------------------------
    route_data,        \* the document handed to RouteEvaluator.__init__
    root_route,        \* self.root_route, the Route tree built from it
    alert_labels,      \* the argument of the last evaluate_alert call
    receivers,         \* the list the last evaluate_alert call returned
    visited,           \* ghost: paths of the nodes the last call traversed, in order
    added,             \* ghost: paths of the nodes that added their own receiver
    epc,               \* "ready" before the first call, "evaluated" after one
    \* --- ConfigManager ----------------------------------------------------
    validation_issues,     \* self.validation_issues
    all_defined_receivers, \* self.all_defined_receivers, in insertion order
    call,                  \* ghost: the last method call and its arguments
    pc,                    \* the position of render()
    base_file,             \* what reading base.yaml yields
    fragment_files,        \* the other YAML files, in os.walk order
    environ,               \* os.environ
    file_idx,              \* how many fragment files have been processed
    base_config,           \* render's base_config
    routing_config,        \* what find_and_load_routing_configs collected
    alertmanager_config,   \* render's alertmanager_config
    output_file,           \* the content of alertmanager.yaml, or NoFile
    rc,                    \* render's return value, or NoRc while it runs
    \* --- command line ------------------------------------------------------
    argv,                  \* the parsed arguments of the axe command
    exit_code              \* the exit code of the process, or NoExit while it runs

evalVars == <<route_data, root_route, alert_labels, receivers, visited, added, epc>>
cmVars == <<validation_issues, all_defined_receivers, call, pc, base_file,
            fragment_files, environ, file_idx, base_config, routing_config,
            alertmanager_config, output_file, rc>>
cliVars == <<argv, exit_code>>
vars == <<evalVars, cmVars, cliVars>>

(***************************************************************************)
(* Python dictionaries are functions from keys to values; a key that is    *)
(* absent from the dictionary is absent from the function's domain.        *)
(***************************************************************************)
EmptyDict == [k \in {} |-> k]

\* dict.get(key, default)
Get(d, k, default) == IF k \in DOMAIN d THEN d[k] ELSE default

\* d with d[k] = v
Put(d, k, v) == [x \in DOMAIN d \cup {k} |-> IF x = k THEN v ELSE d[x]]

\* whether sequence p is a prefix of sequence q
IsPrefix(p, q) == Len(p) <= Len(q) /\ SubSeq(q, 1, Len(p)) = p

(***************************************************************************)
(*                        axe/route_evaluator.py                           *)
(***************************************************************************)

\* Route.__init__ reading the tree under the key "route" when the document
\* is a whole configuration.
RECURSIVE RouteUnwrapped(_, _)
RouteUnwrapped(data, isRoot) ==
    LET d == IF "route" \in DOMAIN data THEN data["route"] ELSE data
    IN  [receiver      |-> Get(d, "receiver", "default"),
         match         |-> Get(d, "match", EmptyDict),
         match_re      |-> Get(d, "match_re", EmptyDict),
         matchers      |-> Get(d, "matchers", <<>>),
         continue_flag |-> IF isRoot THEN Get(d, "continue", TRUE)
                                     ELSE Get(d, "continue", FALSE),
         routes        |-> [i \in 1..Len(Get(d, "routes", <<>>)) |->
                               RouteUnwrapped(d["routes"][i], FALSE)]]

\* Route.__init__ with another default receiver for a node without one.
RECURSIVE RouteEmptyDefault(_, _)
RouteEmptyDefault(data, isRoot) ==
    [receiver      |-> Get(data, "receiver", ""),
     match         |-> Get(data, "match", EmptyDict),
     match_re      |-> Get(data, "match_re", EmptyDict),
     matchers      |-> Get(data, "matchers", <<>>),
     continue_flag |-> IF isRoot THEN Get(data, "continue", TRUE)
                                 ELSE Get(data, "continue", FALSE),
     routes        |-> [i \in 1..Len(Get(data, "routes", <<>>)) |->
                           RouteEmptyDefault(data["routes"][i], FALSE)]]

\* Route.__init__: the Route object built from a route document. isRoot is
\* "parent is None".
RECURSIVE Route(_, _)
Route(data, isRoot) ==
    [receiver      |-> Get(data, "receiver", "default"),
     match         |-> Get(data, "match", EmptyDict),
     match_re      |-> Get(data, "match_re", EmptyDict),
     matchers      |-> Get(data, "matchers", <<>>),
     continue_flag |-> IF isRoot THEN Get(data, "continue", TRUE)
                                 ELSE Get(data, "continue", FALSE),
     routes        |-> [i \in 1..Len(Get(data, "routes", <<>>)) |->
                           Route(data["routes"][i], FALSE)]]

(***************************************************************************)
(* Matcher strings and regex patterns. The code works on characters; a     *)
(* string is modelled as the list of its pieces, a piece being a maximal   *)
(* run of word characters [a-zA-Z0-9_] (one of Words) or a single other    *)
(* character: a space, '=', '!', '~', a double quote, '|' or '('. The      *)
(* label values of an alert are single words or empty.                     *)
(***************************************************************************)
Words == {"severity", "environment", "critical", "warning", "production",
          "staging", "crit", "9lives"}

\* the pieces of a label value: a single word, or nothing for ""
Chars(s) == IF s = "" THEN <<>> ELSE <<s>>

\* \s* at the start of s: s without its leading spaces
RECURSIVE SkipSpaces(_)
SkipSpaces(s) == IF s # <<>> /\ Head(s) = " " THEN SkipSpaces(Tail(s)) ELSE s

\* [a-zA-Z_][a-zA-Z0-9_]* : a word that does not start with a digit
IsLabelWord(w) == w \in Words /\ w # "9lives"

\* [=!~]+ at the start of s: how many pieces it takes (it is greedy)
RECURSIVE OperatorLen(_)
OperatorLen(s) ==
    IF s # <<>> /\ Head(s) \in {"=", "!", "~"} THEN 1 + OperatorLen(Tail(s)) ELSE 0

\* if pattern_or_value.startswith('"') and pattern_or_value.endswith('"'):
\*     pattern_or_value = pattern_or_value[1:-1]
StripQuotes(s) ==
    IF s # <<>> /\ Head(s) = "\"" /\ s[Len(s)] = "\""
    THEN SubSeq(s, 2, Len(s) - 1) ELSE s

\* whether re raises re.error for the pattern: an unbalanced parenthesis
RegexInvalid(pattern) == \E i \in 1..Len(pattern) : pattern[i] = "("

\* whether word w occurs in word s
WordContains(s, w) == w = s \/ (w = "crit" /\ s = "critical")

\* the alternatives of a pattern: its parts between '|' characters
Alternatives(pattern) ==
    {SubSeq(pattern, a, b) :
        <<a, b>> \in {<<x, y>> \in (1..(Len(pattern) + 1)) \X (0..Len(pattern)) :
                         /\ x <= y + 1
                         /\ (x = 1 \/ pattern[x - 1] = "|")
                         /\ (y = Len(pattern) \/ pattern[y + 1] = "|")
                         /\ \A i \in x..y : pattern[i] # "|"}}

\* bool(re.search(pattern, alert_value)) for a valid pattern made of literal
\* characters and '|': some alternative occurs in the value. A value is a
\* word or empty, so an alternative holding a non-word character occurs in none.
re_search(pattern, alert_value) ==
    \E alt \in Alternatives(pattern) :
        \/ alt = <<>>
        \/ Len(alt) = 1 /\ alt[1] \in Words /\ alert_value # ""
                        /\ WordContains(alert_value, alt[1])

\* _evaluate_matcher_string with a string that cannot be parsed taken to match
EvaluateMatcherStringLenient(matcher_str, labels) ==
    LET s1 == SkipSpaces(matcher_str)
    IN  IF s1 = <<>> \/ ~IsLabelWord(Head(s1)) THEN TRUE
        ELSE LET label == Head(s1)
                 s2 == SkipSpaces(Tail(s1))
                 n == OperatorLen(s2)
             IN  IF n = 0 THEN TRUE
                 ELSE LET operator == SubSeq(s2, 1, n)
                          pattern_or_value ==
                              StripQuotes(SkipSpaces(SubSeq(s2, n + 1, Len(s2))))
                          alert_value == Get(labels, label, "")
                      IN  CASE operator = <<"=">> -> Chars(alert_value) = pattern_or_value
                            [] operator = <<"!", "=">> ->
                                   Chars(alert_value) # pattern_or_value
                            [] operator = <<"=", "~">> ->
                                   /\ ~RegexInvalid(pattern_or_value)
                                   /\ re_search(pattern_or_value, alert_value)
                            [] operator = <<"!", "~">> ->
                                   /\ ~RegexInvalid(pattern_or_value)
                                   /\ ~re_search(pattern_or_value, alert_value)
                            [] OTHER -> TRUE

\* Route._evaluate_matcher_string: the string is matched against
\* ^\s*([a-zA-Z_][a-zA-Z0-9_]*)\s*([=!~]+)\s*(.*)\s*$ ; the greedy (.*) takes
\* the rest of the string, trailing spaces included, and leaves nothing to
\* the last \s*.
evaluate_matcher_string(matcher_str, labels) ==
    LET s1 == SkipSpaces(matcher_str)
    IN  IF s1 = <<>> \/ ~IsLabelWord(Head(s1)) THEN FALSE
        ELSE LET label == Head(s1)
                 s2 == SkipSpaces(Tail(s1))
                 n == OperatorLen(s2)
             IN  IF n = 0 THEN FALSE
                 ELSE LET operator == SubSeq(s2, 1, n)
                          pattern_or_value ==
                              StripQuotes(SkipSpaces(SubSeq(s2, n + 1, Len(s2))))
                          alert_value == Get(labels, label, "")
                      IN  CASE operator = <<"=">> -> Chars(alert_value) = pattern_or_value
                            [] operator = <<"!", "=">> ->
                                   Chars(alert_value) # pattern_or_value
                            [] operator = <<"=", "~">> ->
                                   /\ ~RegexInvalid(pattern_or_value)
                                   /\ re_search(pattern_or_value, alert_value)
                            [] operator = <<"!", "~">> ->
                                   /\ ~RegexInvalid(pattern_or_value)
                                   /\ ~re_search(pattern_or_value, alert_value)
                            [] OTHER -> FALSE

\* Route.matches_alert: every 'match' entry equals the alert's label (an
\* absent label reading as the empty string), every 'match_re' pattern is
\* valid and found in the label, and every 'matchers' string evaluates true.
matches_alert(route, labels) ==
    /\ \A key \in DOMAIN route.match : Get(labels, key, "") = route.match[key]
    /\ \A key \in DOMAIN route.match_re :
          /\ ~RegexInvalid(route.match_re[key])
          /\ re_search(route.match_re[key], Get(labels, key, ""))
    /\ \A i \in 1..Len(route.matchers) :
          evaluate_matcher_string(route.matchers[i], labels)

RECURSIVE traverse_and_match_recursive(_, _, _, _)
RECURSIVE ChildLoop(_, _, _, _, _)

\* The for loop with every matching child stopping it, whatever its continue flag.
ChildLoopStopOnAnyMatch(current_route, path, labels, i, st) ==
    IF i > Len(current_route.routes)
    THEN [child_handled_and_stopped |-> FALSE, st |-> st]
    ELSE LET r == traverse_and_match_recursive(
                      current_route.routes[i], Append(path, i), labels, st)
         IN  IF r.ret
             THEN [child_handled_and_stopped |-> TRUE, st |-> r.st]
             ELSE ChildLoop(current_route, path, labels, i + 1, r.st)

\* The for loop without its break: a stopping child still suppresses the
\* parent, but the later siblings are evaluated.
ChildLoopNoBreak(current_route, path, labels, i, st) ==
    IF i > Len(current_route.routes)
    THEN [child_handled_and_stopped |-> FALSE, st |-> st]
    ELSE LET r == traverse_and_match_recursive(
                      current_route.routes[i], Append(path, i), labels, st)
             rest == ChildLoop(current_route, path, labels, i + 1, r.st)
         IN  IF r.ret /\ ~current_route.routes[i].continue_flag
             THEN [child_handled_and_stopped |-> TRUE, st |-> rest.st]
             ELSE rest

\* The for loop over current_route.routes from child i on: it breaks at the
\* first child that matched and has continue_flag false.
ChildLoop(current_route, path, labels, i, st) ==
    IF i > Len(current_route.routes)
    THEN [child_handled_and_stopped |-> FALSE, st |-> st]
    ELSE LET r == traverse_and_match_recursive(
                      current_route.routes[i], Append(path, i), labels, st)
         IN  IF r.ret /\ ~current_route.routes[i].continue_flag
             THEN [child_handled_and_stopped |-> TRUE, st |-> r.st]
             ELSE ChildLoop(current_route, path, labels, i + 1, r.st)

\* The traversal with the suppression left out: a matching node always adds
\* its receiver.
TraverseAlwaysAdd(current_route, path, labels, st) ==
    LET st1 == [st EXCEPT !.visited = Append(@, path)]
    IN  IF ~matches_alert(current_route, labels)
        THEN [ret |-> FALSE, st |-> st1]
        ELSE LET loop == ChildLoop(current_route, path, labels, 1, st1)
             IN  [ret |-> TRUE,
                  st  |-> [loop.st EXCEPT
                             !.matched_receivers = @ \cup {current_route.receiver},
                             !.added = @ \cup {path}]]

\* The traversal going on into the children of a node that does not match.
TraverseDescendsUnmatched(current_route, path, labels, st) ==
    LET st1 == [st EXCEPT !.visited = Append(@, path)]
        loop == ChildLoop(current_route, path, labels, 1, st1)
    IN  IF ~matches_alert(current_route, labels)
        THEN [ret |-> FALSE, st |-> loop.st]
        ELSE IF ~loop.child_handled_and_stopped
             THEN [ret |-> TRUE,
                   st  |-> [loop.st EXCEPT
                              !.matched_receivers = @ \cup {current_route.receiver},
                              !.added = @ \cup {path}]]
             ELSE [ret |-> TRUE, st |-> loop.st]

\* The traversal reporting to its caller whether the node added its own
\* receiver, not whether it matched.
TraverseReportsAdded(current_route, path, labels, st) ==
    LET st1 == [st EXCEPT !.visited = Append(@, path)]
    IN  IF ~matches_alert(current_route, labels)
        THEN [ret |-> FALSE, st |-> st1]
        ELSE LET loop == ChildLoop(current_route, path, labels, 1, st1)
             IN  IF ~loop.child_handled_and_stopped
                 THEN [ret |-> TRUE,
                       st  |-> [loop.st EXCEPT
                                  !.matched_receivers = @ \cup {current_route.receiver},
                                  !.added = @ \cup {path}]]
                 ELSE [ret |-> FALSE, st |-> loop.st]

\* RouteEvaluator._traverse_and_match_recursive. st.matched_receivers is the
\* set the code threads through the recursion; st.visited and st.added record
\* which nodes were evaluated and which ran matched_receivers.add.
traverse_and_match_recursive(current_route, path, labels, st) ==
    LET st1 == [st EXCEPT !.visited = Append(@, path)]
    IN  IF ~matches_alert(current_route, labels)
        THEN [ret |-> FALSE, st |-> st1]
        ELSE LET loop == ChildLoop(current_route, path, labels, 1, st1)
             IN  IF ~loop.child_handled_and_stopped
                 THEN [ret |-> TRUE,
                       st  |-> [loop.st EXCEPT
                                  !.matched_receivers = @ \cup {current_route.receiver},
                                  !.added = @ \cup {path}]]
                 ELSE [ret |-> TRUE, st |-> loop.st]

\* The receiver names of the model in ascending string order, as sorted() orders them.
NameOrder == <<"", "default", "email", "pagerduty", "slack">>

RECURSIVE SortedFrom(_, _)
SortedFrom(S, i) ==
    IF i > Len(NameOrder) THEN <<>>
    ELSE (IF NameOrder[i] \in S THEN <<NameOrder[i]>> ELSE <<>>) \o SortedFrom(S, i + 1)

\* sorted(list(matched_receivers), reverse=True): the names in descending order
RECURSIVE SortedDescendingFrom(_, _)
SortedDescendingFrom(S, i) ==
    IF i < 1 THEN <<>>
    ELSE (IF NameOrder[i] \in S THEN <<NameOrder[i]>> ELSE <<>>)
             \o SortedDescendingFrom(S, i - 1)

SortedDescending(S) == SortedDescendingFrom(S, Len(NameOrder))

\* sorted(list(matched_receivers))
Sorted(S) == SortedFrom(S, 1)

\* RouteEvaluator.evaluate_alert: the final traversal state and the sorted list.
evaluate_alert(root, labels) ==
    LET r == traverse_and_match_recursive(root, <<>>, labels,
                 [matched_receivers |-> {}, visited |-> <<>>, added |-> {}])
    IN  [receivers |-> Sorted(r.st.matched_receivers),
         visited   |-> r.st.visited,
         added     |-> r.st.added]

(***************************************************************************)
(* The route documents and alerts the evaluator is checked on.             *)
(***************************************************************************)
MaxNodes == 3

Absent == "<absent>"

\* a node document with the given fields; Absent leaves the key out
NodeDoc(r, m, c) ==
    [k \in (IF r = Absent THEN {} ELSE {"receiver"})
           \cup (IF m = Absent THEN {} ELSE {"match"})
           \cup (IF c = Absent THEN {} ELSE {"continue"}) |->
        CASE k = "receiver" -> r
          [] k = "match"    -> [label \in {m[1]} |-> m[2]]
          [] k = "continue" -> (c = "true")]

RootNodeDocs ==
    {NodeDoc(r, m, Absent) :
        r \in {Absent, "default"}, m \in {Absent, <<"severity", "critical">>}}

ChildNodeDocs ==
    {NodeDoc(r, m, c) :
        r \in {Absent, "email", "slack"},
        m \in {Absent, <<"severity", "critical">>},
        c \in {Absent, "true"}}

RECURSIVE ChildTrees(_)
RECURSIVE Forests(_)
\* the child documents with exactly n nodes
ChildTrees(n) ==
    IF n = 1 THEN ChildNodeDocs
    ELSE {Put(d, "routes", f) : d \in ChildNodeDocs, f \in Forests(n - 1)}
\* the non-empty lists of child documents with m nodes in all
Forests(m) ==
    UNION {{<<t>> \o f : t \in ChildTrees(k),
                         f \in (IF k = m THEN {<<>>} ELSE Forests(m - k))}
           : k \in 1..m}

RootTrees(n) ==
    IF n = 1 THEN RootNodeDocs
    ELSE {Put(d, "routes", f) : d \in RootNodeDocs, f \in Forests(n - 1)}

\* the nested tree of tests/test_route_evaluator.py
ComplexRouteDoc ==
    [receiver |-> "default", continue |-> TRUE,
     routes |-> <<
        [receiver |-> "email", match |-> [severity |-> "critical"], continue |-> TRUE,
         routes |-> <<[receiver |-> "pagerduty",
                       match |-> [environment |-> "production"],
                       continue |-> TRUE]>>],
        [receiver |-> "slack", match |-> [severity |-> "warning"], continue |-> TRUE]>>]

\* {receiver: default, routes: [{receiver: email, match: {severity: critical}, continue: false}]}
SimpleStopDoc ==
    [receiver |-> "default",
     routes |-> <<[receiver |-> "email", match |-> [severity |-> "critical"],
                   continue |-> FALSE]>>]

\* a tree that declares its receivers out of order and some of them twice
UnorderedRepeatDoc ==
    [receiver |-> "slack",
     routes |-> <<[receiver |-> "email", continue |-> TRUE],
                  [receiver |-> "slack", continue |-> TRUE],
                  [receiver |-> "email", continue |-> TRUE]>>]

\* a continuing child, a stopping child for critical alerts, and a later
\* sibling that matches every alert and has a stopping child of its own
SiblingsDoc ==
    [receiver |-> "default",
     routes |-> <<[receiver |-> "email", continue |-> TRUE],
                  [receiver |-> "slack", match |-> [severity |-> "critical"]],
                  [receiver |-> "pagerduty", routes |-> <<[receiver |-> "email"]>>]>>]

\* the whole configuration document of test_route_evaluator_simple_route
SimpleConfigDoc ==
    [route |-> [receiver |-> "default",
                routes |-> <<[receiver |-> "email",
                              match |-> [severity |-> "critical"]]>>]]

\* the whole configuration document of test_route_evaluator_continue_flag
ContinueConfigDoc ==
    [global |-> [resolve_timeout |-> "5m"],
     route |-> [receiver |-> "default", continue |-> TRUE,
                routes |-> <<[receiver |-> "email", match |-> [severity |-> "critical"],
                              continue |-> TRUE],
                             [receiver |-> "slack", match |-> [severity |-> "warning"],
                              continue |-> TRUE]>>]]

\* n spaces
Pad(n) == [i \in 1..n |-> " "]

MatcherOperators == {<<"=">>, <<"!", "=">>, <<"=", "~">>, <<"!", "~">>}

MatcherValues == {<<"critical">>, <<"crit">>, <<"critical", "|", "warning">>}

\* the matcher string "label OP value" with l spaces in front, a before and b
\* after the operator, c after the value, the value in double quotes if q
MatcherString(l, label, a, op, b, q, value, c) ==
    Pad(l) \o <<label>> \o Pad(a) \o op \o Pad(b)
        \o (IF q THEN <<"\"">> \o value \o <<"\"">> ELSE value) \o Pad(c)

WellFormedMatchers ==
    {MatcherString(l, "severity", a, op, b, q, value, c) :
        l \in 0..1, a \in 0..1, b \in 0..1, c \in 0..1, q \in BOOLEAN,
        op \in MatcherOperators, value \in MatcherValues}

\* matcher strings that cannot be parsed: a label starting with a digit, no
\* label, no operator, an unknown operator; and invalid regex operands
BadMatchers ==
    {<<"9lives", "=", "critical">>, <<"=", "critical">>,
     <<"severity", " ", "critical">>, <<"severity", "=", "=", "critical">>,
     <<"severity", "~", "critical">>,
     <<"severity", "=", "~", "(">>, <<"severity", "!", "~", "(">>}

\* {receiver: default, routes: [{receiver: email, matchers: [m], continue: true},
\*                              {receiver: slack, match: {severity: critical}}]}
MatcherDoc(m) ==
    [receiver |-> "default",
     routes |-> <<[receiver |-> "email", matchers |-> <<m>>, continue |-> TRUE],
                  [receiver |-> "slack", match |-> [severity |-> "critical"]]>>]

\* the criteria of the first child of a CriteriaDoc
ChildCriteria ==
    {[matchers |-> <<m>>] : m \in BadMatchers}
    \cup {[matchers |-> <<<<"severity", "=", "critical">>, m>>] : m \in BadMatchers}
    \cup {[match_re |-> [severity |-> p]] :
             p \in {<<"(">>, <<"crit">>, <<"warning">>, <<"critical", "|", "warning">>}}
    \cup {[match |-> [severity |-> "critical"], match_re |-> [environment |-> <<"(">>]]}

\* {receiver: default, routes: [{receiver: email, <criteria>, routes: [{receiver: pagerduty}]},
\*                              {receiver: slack, match: {severity: critical}}]}
\* where the first child and its child have continue = false
CriteriaDoc(criteria) ==
    [receiver |-> "default",
     routes |-> <<[k \in {"receiver", "routes"} \cup DOMAIN criteria |->
                      CASE k = "receiver" -> "email"
                        [] k = "routes"   -> <<[receiver |-> "pagerduty"]>>
                        [] OTHER          -> criteria[k]],
                  [receiver |-> "slack", match |-> [severity |-> "critical"]]>>]

MatcherDocs ==
    {MatcherDoc(m) : m \in WellFormedMatchers \cup BadMatchers}
    \cup {CriteriaDoc(criteria) : criteria \in ChildCriteria}

RouteDocs ==
    UNION {RootTrees(n) : n \in 1..MaxNodes}
    \cup {ComplexRouteDoc, SimpleStopDoc, UnorderedRepeatDoc, SiblingsDoc}
    \cup {SimpleConfigDoc, ContinueConfigDoc} \cup MatcherDocs

Alerts ==
    {[k \in {"alertname", "severity"} \cup (IF e = Absent THEN {} ELSE {"environment"}) |->
        CASE k = "alertname"   -> "DiskFull"
          [] k = "severity"    -> s
          [] k = "environment" -> e]
     : s \in {"critical", "warning"}, e \in {Absent, "production", "staging"}}

(***************************************************************************)
(* Navigation in a Route tree: a node is named by its path, the list of    *)
(* child positions (from 1) that leads to it from the root.                *)
(***************************************************************************)
RECURSIVE NodeAt(_, _)
NodeAt(route, p) ==
    IF p = <<>> THEN route ELSE NodeAt(route.routes[Head(p)], Tail(p))

RECURSIVE PathsOf(_)
PathsOf(route) ==
    {<<>>} \cup UNION {{<<i>> \o q : q \in PathsOf(route.routes[i])}
                       : i \in 1..Len(route.routes)}

\* the values of the receiver fields written in a route document
RECURSIVE DocReceivers(_)
DocReceivers(data) ==
    (IF "receiver" \in DOMAIN data THEN {data["receiver"]} ELSE {})
    \cup UNION {DocReceivers(Get(data, "routes", <<>>)[i])
                : i \in 1..Len(Get(data, "routes", <<>>))}

\* whether some node of a route document has no receiver field
RECURSIVE SomeNodeLacksReceiver(_)
SomeNodeLacksReceiver(data) ==
    \/ "receiver" \notin DOMAIN data
    \/ \E i \in 1..Len(Get(data, "routes", <<>>)) :
          SomeNodeLacksReceiver(data["routes"][i])

Range(q) == {q[i] : i \in 1..Len(q)}

SetMin(S) == CHOOSE x \in S : \A y \in S : x <= y

\* the positions of the children of n that match the alert and have continue = false
StoppingChildren(n, labels) ==
    {i \in 1..Len(n.routes) :
        matches_alert(n.routes[i], labels) /\ ~n.routes[i].continue_flag}

\* the paths of the nodes that match the alert and all of whose ancestors match it
MatchingChains(root, labels) ==
    {p \in PathsOf(root) :
        \A j \in 0..Len(p) : matches_alert(NodeAt(root, SubSeq(p, 1, j)), labels)}

\* whether every non-root node of the tree has continue = true
AllNonRootContinue(root) ==
    \A p \in PathsOf(root) : p # <<>> => NodeAt(root, p).continue_flag

(***************************************************************************)
(*                        axe/config_manager.py                            *)
(*                                                                         *)
(* A parsed YAML value carries its Python type, which the code tests with  *)
(* isinstance: a string [t |-> "str", s |-> ...], an integer, a list (its   *)
(* items a sequence of values), a dict (its fields a function from keys to *)
(* values) or None.                                                        *)
(***************************************************************************)
YStr(s) == [t |-> "str", s |-> s]
YInt(n) == [t |-> "int", n |-> n]
YList(q) == [t |-> "list", items |-> q]
YDict(d) == [t |-> "dict", fields |-> d]
YNone == [t |-> "none"]

IsStr(y) == y.t = "str"
IsList(y) == y.t = "list"
IsDict(y) == y.t = "dict"
IsNone(y) == y.t = "none"

\* Python's "not y"
Falsy(y) ==
    CASE y.t = "none" -> TRUE
      [] y.t = "str"  -> y.s = ""
      [] y.t = "int"  -> y.n = 0
      [] y.t = "list" -> Len(y.items) = 0
      [] y.t = "dict" -> DOMAIN y.fields = {}

\* key in y, for a dict y
HasKey(y, k) == k \in DOMAIN y.fields

\* y.get(k), for a dict y
DictGet(y, k) == IF k \in DOMAIN y.fields THEN y.fields[k] ELSE YNone

\* y with y[k] = x, for a dict y
DictPut(y, k, x) == YDict(Put(y.fields, k, x))

\* The keys of the documents of the model, in the order the documents write
\* them: a Python dict iterates in insertion order.
KeyOrder ==
    <<"global", "smtp_from", "route", "receivers", "routes", "time_intervals",
      "inhibit_rules", "name", "webhook_configs", "url", "receiver", "match",
      "severity", "continue">>

\* the keys of dict d as a list, in document order
RECURSIVE KeysFrom(_, _)
KeysFrom(d, i) ==
    IF i > Len(KeyOrder) THEN <<>>
    ELSE (IF KeyOrder[i] \in DOMAIN d THEN <<KeyOrder[i]>> ELSE <<>>) \o KeysFrom(d, i + 1)

Keys(d) == KeysFrom(d, 1)

\* A file path: os.path.join of the folder and the file's name. File 0 is
\* base.yaml, file i the i-th file os.walk yields.
FilePath(i) == [folder |-> "conf", file |-> i]

BasePath == FilePath(0)

\* A path label as the code formats it: head, then ".routes[i]" per index
\* ("routes[0].routes[1]" is head "routes", idx <<0, 1>>; "route.routes[1]"
\* is head "route", idx <<1>>).
PathLabel(head, idx) == [head |-> head, idx |-> idx]

\* f"routes[{i}]"
RoutesPath(i) == PathLabel("routes", <<i>>)

\* f"{path}.routes[{i}]"
SubRoutePath(path, i) == [path EXCEPT !.idx = Append(@, i)]

(***************************************************************************)
(* Validation issues. The code appends formatted strings and later tests   *)
(* issue.startswith("Error:"); an issue is modelled by the text its        *)
(* message starts with (prefix), the message template (kind) and the       *)
(* values formatted into it.                                               *)
(***************************************************************************)
ErrorIssue(kind, fields) ==
    [x \in {"prefix", "kind"} \cup DOMAIN fields |->
        CASE x = "prefix" -> "Error:"
          [] x = "kind"   -> kind
          [] OTHER        -> fields[x]]

\* "Error: Receiver definition in '{source_file}' is missing the 'name' key."
MissingNameIssue(source_file) ==
    ErrorIssue("receiver_missing_name", [source_file |-> source_file])

\* "Error: Receiver name '{receiver_name}' in '{source_file}' is invalid or empty."
InvalidNameIssue(receiver_name, source_file) ==
    ErrorIssue("receiver_invalid_name",
               [value |-> receiver_name, source_file |-> source_file])

\* "Error: Duplicate receiver name '{receiver_name}' found. First defined in
\* '{existing_source}', duplicated in '{source_file}'."
DuplicateIssue(receiver_name, existing_source, source_file) ==
    ErrorIssue("duplicate_receiver",
               [receiver |-> receiver_name, existing_source |-> existing_source,
                source_file |-> source_file])

\* "Error: 'webhook_configs' for receiver '{receiver_name}' in file
\* '{source_file}' must be a list."
WebhookNotListIssue(receiver_name, source_file) ==
    ErrorIssue("webhook_configs_not_list",
               [value |-> receiver_name, source_file |-> source_file])

\* "Error: Webhook config {i} for receiver '{receiver_name}' in file
\* '{source_file}' is not a dictionary."
WebhookNotDictIssue(i, receiver_name, source_file) ==
    ErrorIssue("webhook_config_not_dict",
               [index |-> i, value |-> receiver_name, source_file |-> source_file])

\* "Error: Webhook config {i} for receiver '{receiver_name}' in file
\* '{source_file}' is missing a 'url' or it's empty in '{source_file}'."
WebhookUrlIssue(i, receiver_name, source_file) ==
    ErrorIssue("webhook_config_missing_url",
               [index |-> i, value |-> receiver_name, source_file |-> source_file])

\* "Error: Invalid or empty receiver name at '{path}.receiver' in file '{source_file}'."
InvalidReceiverRefIssue(path, source_file) ==
    ErrorIssue("invalid_receiver_reference",
               [path |-> path, source_file |-> source_file])

\* "Error: Receiver '{receiver_name}' referenced at '{path}' in file
\* '{source_file}' is not defined in any 'receivers' section."
UnresolvedIssue(receiver_name, path, source_file) ==
    ErrorIssue("unresolved_receiver",
               [receiver |-> receiver_name, path |-> path, source_file |-> source_file])

\* "Error: 'routes' at '{path}.routes' in file '{source_file}' must be a list."
RoutesNotListIssue(path, source_file) ==
    ErrorIssue("routes_not_list", [path |-> path, source_file |-> source_file])

\* "Error: Sub-route at '{path}.routes[{i}]' in file '{source_file}' is not a dictionary."
SubRouteNotDictIssue(path, source_file) ==
    ErrorIssue("sub_route_not_dict", [path |-> path, source_file |-> source_file])

\* issue.startswith("Error:")
StartsWithError(issue) == issue.prefix = "Error:"

(***************************************************************************)
(* The ConfigManager object: self.validation_issues and                    *)
(* self.all_defined_receivers. The registry is a dict, which keeps         *)
(* insertion order: a list of entries with distinct names.                 *)
(***************************************************************************)
Manager(issues, registry) ==
    [validation_issues |-> issues, all_defined_receivers |-> registry]

\* self.validation_issues = [issue]: the issues recorded before are dropped
AddIssueReplacing(self, issue) == [self EXCEPT !.validation_issues = <<issue>>]

\* self.validation_issues.append(issue)
AddIssue(self, issue) == [self EXCEPT !.validation_issues = Append(@, issue)]

\* the keys of all_defined_receivers
RegistryNames(registry) == {registry[i].name : i \in 1..Len(registry)}

\* all_defined_receivers[name]
RegistryEntry(registry, name) ==
    registry[CHOOSE i \in 1..Len(registry) : registry[i].name = name]

RECURSIVE WebhookLoop(_, _, _, _, _)

\* the loop over the webhook configs leaving at the first issue
WebhookLoopFirstIssueOnly(self, webhook_configs, i, receiver_name, source_file) ==
    IF i > Len(webhook_configs) THEN self
    ELSE LET webhook_config == webhook_configs[i]
         IN  IF ~IsDict(webhook_config)
             THEN AddIssue(self, WebhookNotDictIssue(i - 1, receiver_name, source_file))
             ELSE IF ~HasKey(webhook_config, "url") \/ Falsy(webhook_config.fields["url"])
                  THEN AddIssue(self, WebhookUrlIssue(i - 1, receiver_name, source_file))
                  ELSE WebhookLoop(self, webhook_configs, i + 1, receiver_name, source_file)

\* The loop over receiver_data["webhook_configs"] from element i (from 1) on.
WebhookLoop(self, webhook_configs, i, receiver_name, source_file) ==
    IF i > Len(webhook_configs) THEN self
    ELSE LET webhook_config == webhook_configs[i]
             self1 ==
                 IF ~IsDict(webhook_config)
                 THEN AddIssue(self, WebhookNotDictIssue(i - 1, receiver_name, source_file))
                 ELSE IF ~HasKey(webhook_config, "url") \/ Falsy(webhook_config.fields["url"])
                      THEN AddIssue(self, WebhookUrlIssue(i - 1, receiver_name, source_file))
                      ELSE self
         IN  WebhookLoop(self1, webhook_configs, i + 1, receiver_name, source_file)

\* ConfigManager._validate_single_receiver_config
validate_single_receiver_config(self, receiver_data, source_file) ==
    LET receiver_name == IF HasKey(receiver_data, "name")
                         THEN receiver_data.fields["name"] ELSE YStr("N/A")
    IN  IF HasKey(receiver_data, "webhook_configs")
        THEN IF ~IsList(receiver_data.fields["webhook_configs"])
             THEN AddIssue(self, WebhookNotListIssue(receiver_name, source_file))
             ELSE WebhookLoop(self, receiver_data.fields["webhook_configs"].items, 1,
                              receiver_name, source_file)
        ELSE self

\* The insert with the last writer winning: a duplicate replaces the entry.
AddReceiverLastWriterWins(self, receiver_data, source_file) ==
    LET receiver_name == DictGet(receiver_data, "name")
        registry == self.all_defined_receivers
        entry == [name |-> receiver_name.s, data |-> receiver_data,
                  source_file |-> source_file]
    IN  IF Falsy(receiver_name)
        THEN AddIssue(self, MissingNameIssue(source_file))
        ELSE IF ~IsStr(receiver_name) \/ Falsy(receiver_name)
        THEN AddIssue(self, InvalidNameIssue(receiver_name, source_file))
        ELSE IF receiver_name.s \in RegistryNames(registry)
        THEN [AddIssue(self, DuplicateIssue(receiver_name.s,
                  RegistryEntry(registry, receiver_name.s).source_file, source_file))
                EXCEPT !.all_defined_receivers =
                    [i \in 1..Len(registry) |->
                        IF registry[i].name = receiver_name.s THEN entry ELSE registry[i]]]
        ELSE validate_single_receiver_config(
                 [self EXCEPT !.all_defined_receivers = Append(@, entry)],
                 receiver_data, source_file)

\* ConfigManager._add_receiver_to_master_list
add_receiver_to_master_list(self, receiver_data, source_file) ==
    LET receiver_name == DictGet(receiver_data, "name")
        registry == self.all_defined_receivers
    IN  IF Falsy(receiver_name)
        THEN AddIssue(self, MissingNameIssue(source_file))
        ELSE IF ~IsStr(receiver_name) \/ Falsy(receiver_name)
        THEN AddIssue(self, InvalidNameIssue(receiver_name, source_file))
        ELSE IF receiver_name.s \in RegistryNames(registry)
        THEN AddIssue(self, DuplicateIssue(receiver_name.s,
                 RegistryEntry(registry, receiver_name.s).source_file, source_file))
        ELSE validate_single_receiver_config(
                 [self EXCEPT !.all_defined_receivers =
                     Append(@, [name |-> receiver_name.s, data |-> receiver_data,
                                source_file |-> source_file])],
                 receiver_data, source_file)

RECURSIVE validate_route_receiver_reference(_, _, _, _)
RECURSIVE SubRouteLoop(_, _, _, _, _)

\* The loop over route_node["routes"] from element i (from 1) on.
SubRouteLoop(self, routes, i, path, source_file) ==
    IF i > Len(routes) THEN self
    ELSE LET sub_route == routes[i]
             self1 ==
                 IF ~IsDict(sub_route)
                 THEN AddIssue(self, SubRouteNotDictIssue(SubRoutePath(path, i - 1),
                                                          source_file))
                 ELSE validate_route_receiver_reference(
                          self, sub_route, SubRoutePath(path, i - 1), source_file)
         IN  SubRouteLoop(self1, routes, i + 1, path, source_file)

\* The reference check of the node alone: the sub-routes are not walked.
ValidateRouteNoDescent(self, route_node, path, source_file) ==
    IF HasKey(route_node, "receiver")
    THEN LET receiver_name == route_node.fields["receiver"]
         IN  IF ~IsStr(receiver_name) \/ Falsy(receiver_name)
             THEN AddIssue(self, InvalidReceiverRefIssue(path, source_file))
             ELSE IF receiver_name.s \notin RegistryNames(self.all_defined_receivers)
                  THEN AddIssue(self, UnresolvedIssue(receiver_name.s, path, source_file))
                  ELSE self
    ELSE self

\* The reference check going on into the sub-routes of a node whose receiver
\* is invalid or empty.
ValidateRouteDescendsAlways(self, route_node, path, source_file) ==
    LET checked ==
            IF HasKey(route_node, "receiver")
            THEN LET receiver_name == route_node.fields["receiver"]
                 IN  IF ~IsStr(receiver_name) \/ Falsy(receiver_name)
                     THEN AddIssue(self, InvalidReceiverRefIssue(path, source_file))
                     ELSE IF receiver_name.s \notin RegistryNames(self.all_defined_receivers)
                          THEN AddIssue(self,
                                   UnresolvedIssue(receiver_name.s, path, source_file))
                          ELSE self
            ELSE self
    IN  IF HasKey(route_node, "routes")
        THEN IF ~IsList(route_node.fields["routes"])
             THEN AddIssue(checked, RoutesNotListIssue(path, source_file))
             ELSE SubRouteLoop(checked, route_node.fields["routes"].items, 1,
                               path, source_file)
        ELSE checked

\* ConfigManager._validate_route_receiver_reference
validate_route_receiver_reference(self, route_node, path, source_file) ==
    LET checked ==
            IF HasKey(route_node, "receiver")
            THEN LET receiver_name == route_node.fields["receiver"]
                 IN  IF ~IsStr(receiver_name) \/ Falsy(receiver_name)
                     THEN [returned |-> TRUE,
                           self |-> AddIssue(self, InvalidReceiverRefIssue(path, source_file))]
                     ELSE IF receiver_name.s \notin RegistryNames(self.all_defined_receivers)
                          THEN [returned |-> FALSE,
                                self |-> AddIssue(self,
                                    UnresolvedIssue(receiver_name.s, path, source_file))]
                          ELSE [returned |-> FALSE, self |-> self]
            ELSE [returned |-> FALSE, self |-> self]
    IN  IF checked.returned THEN checked.self
        ELSE IF HasKey(route_node, "routes")
             THEN IF ~IsList(route_node.fields["routes"])
                  THEN AddIssue(checked.self, RoutesNotListIssue(path, source_file))
                  ELSE SubRouteLoop(checked.self, route_node.fields["routes"].items, 1,
                                    path, source_file)
             ELSE checked.self

(***************************************************************************)
(* The receiver definitions and route nodes the ConfigManager is checked   *)
(* on. Every receiver definition is a mapping.                             *)
(***************************************************************************)
ReceiverDef(name) == YDict([name |-> YStr(name)])

WebhookReceiver(name, url) ==
    YDict([name |-> YStr(name),
           webhook_configs |-> YList(<<YDict([url |-> YStr(url)])>>)])

ReceiverDocs ==
    {ReceiverDef("default"), ReceiverDef("email"),
     WebhookReceiver("hook", "http://example.com"),
     WebhookReceiver("email", ""),
     YDict([name |-> YStr("hook"),
            webhook_configs |-> YList(<<YDict([url |-> YStr("")]),
                                        YDict([url |-> YStr("http://example.com")]),
                                        YDict(EmptyDict)>>)]),
     ReceiverDef(""),
     YDict([name |-> YInt(5)]),
     YDict([webhook_configs |-> YList(<<>>)])}

RouteNode(receiver) == YDict([receiver |-> YStr(receiver)])

RouteNodeWith(receiver, routes) ==
    YDict([receiver |-> YStr(receiver), routes |-> YList(routes)])

RouteNodeDocs ==
    {RouteNode("email"), RouteNode("ghost"),
     RouteNodeWith("default", <<RouteNode("ghost"), RouteNode("email")>>),
     RouteNodeWith("ghost", <<RouteNodeWith("hook", <<RouteNode("ghost")>>)>>),
     RouteNodeWith("", <<RouteNode("ghost")>>),
     RouteNodeWith("ghost", <<RouteNodeWith("", <<RouteNode("ghost")>>),
                              RouteNode("ghost")>>),
     YDict([receiver |-> YInt(5)]),
     YDict([match |-> YDict([severity |-> YStr("critical")]),
            routes |-> YList(<<RouteNode("ghost")>>)]),
     YDict([receiver |-> YStr("email"), routes |-> RouteNode("ghost")]),
     RouteNodeWith("email", <<YStr("ghost"), RouteNode("ghost")>>)}

(***************************************************************************)
(* RouteEvaluator: construction, then evaluate_alert calls.                *)
(***************************************************************************)
NoFile == [t |-> "nofile"]
NoRc == -1
NoExit == -1

\* the command line variables while no command runs
CliIdle ==
    /\ argv = [command |-> "idle"]
    /\ exit_code = NoExit

\* the ConfigManager variables while only the evaluator runs
CmIdle ==
    /\ validation_issues = <<>>
    /\ all_defined_receivers = <<>>
    /\ call = [op |-> "none"]
    /\ pc = "idle"
    /\ base_file = NoFile
    /\ fragment_files = <<>>
    /\ environ = EmptyDict
    /\ file_idx = 0
    /\ base_config = NoFile
    /\ routing_config = NoFile
    /\ alertmanager_config = NoFile
    /\ output_file = NoFile
    /\ rc = NoRc

\* the evaluator variables while only the ConfigManager runs
EvalIdle ==
    /\ route_data = EmptyDict
    /\ root_route = Route(EmptyDict, TRUE)
    /\ alert_labels = EmptyDict
    /\ receivers = <<>>
    /\ visited = <<>>
    /\ added = {}
    /\ epc = "idle"

\* RouteEvaluator.__init__
InitEval ==
    /\ route_data \in RouteDocs
    /\ root_route = Route(route_data, TRUE)
    /\ alert_labels = EmptyDict
    /\ receivers = <<>>
    /\ visited = <<>>
    /\ added = {}
    /\ epc = "ready"
    /\ CmIdle
    /\ CliIdle

\* one call of RouteEvaluator.evaluate_alert
EvaluateAlert(labels) ==
    LET r == evaluate_alert(root_route, labels)
    IN  /\ epc \in {"ready", "evaluated"}
        /\ alert_labels' = labels
        /\ receivers' = r.receivers
        /\ visited' = r.visited
        /\ added' = r.added
        /\ epc' = "evaluated"
        /\ UNCHANGED <<route_data, root_route, cmVars, cliVars>>

NextEval == \E labels \in Alerts : EvaluateAlert(labels)

SpecEval == InitEval /\ [][NextEval]_vars

(***************************************************************************)
(* ConfigManager called method by method, as tests/test_config_manager.py  *)
(* does: a fresh object, then any calls of _add_receiver_to_master_list    *)
(* and _validate_route_receiver_reference.                                 *)
(***************************************************************************)
MaxIssues == 2

\* ConfigManager.__init__
InitApi ==
    /\ validation_issues = <<>>
    /\ all_defined_receivers = <<>>
    /\ call = [op |-> "init"]
    /\ pc = "api"
    /\ base_file = NoFile
    /\ fragment_files = <<>>
    /\ environ = EmptyDict
    /\ file_idx = 0
    /\ base_config = NoFile
    /\ routing_config = NoFile
    /\ alertmanager_config = NoFile
    /\ output_file = NoFile
    /\ rc = NoRc
    /\ EvalIdle
    /\ CliIdle

\* one call of self._add_receiver_to_master_list(receiver_data, source_file)
CallAddReceiver(receiver_data, source_file) ==
    LET self == add_receiver_to_master_list(
                    Manager(validation_issues, all_defined_receivers),
                    receiver_data, source_file)
    IN  /\ pc = "api"
        /\ Len(validation_issues) < MaxIssues
        /\ validation_issues' = self.validation_issues
        /\ all_defined_receivers' = self.all_defined_receivers
        /\ call' = [op |-> "add_receiver", receiver_data |-> receiver_data,
                    source_file |-> source_file]
        /\ UNCHANGED <<pc, base_file, fragment_files, environ, file_idx, base_config,
                       routing_config, alertmanager_config, output_file, rc, evalVars, cliVars>>

\* one call of self._validate_route_receiver_reference(route_node, path, source_file)
CallValidateRoute(route_node, path, source_file) ==
    LET self == validate_route_receiver_reference(
                    Manager(validation_issues, all_defined_receivers),
                    route_node, path, source_file)
    IN  /\ pc = "api"
        /\ Len(validation_issues) < MaxIssues
        /\ validation_issues' = self.validation_issues
        /\ all_defined_receivers' = self.all_defined_receivers
        /\ call' = [op |-> "validate_route", route_node |-> route_node,
                    path |-> path, source_file |-> source_file]
        /\ UNCHANGED <<pc, base_file, fragment_files, environ, file_idx, base_config,
                       routing_config, alertmanager_config, output_file, rc, evalVars, cliVars>>

NextApi ==
    \/ \E receiver_data \in ReceiverDocs, source_file \in {FilePath(0), FilePath(1)} :
          CallAddReceiver(receiver_data, source_file)
    \/ \E route_node \in RouteNodeDocs :
          CallValidateRoute(route_node, PathLabel("root", <<>>), FilePath(1))

SpecApi == InitApi /\ [][NextApi]_vars

(***************************************************************************)
(* ConfigManager.render: one pass over the files of a folder.              *)
(*                                                                         *)
(* What a file holds is the parsed YAML value of its text, or MissingFile  *)
(* when open() raises FileNotFoundError, or YamlErrorFile when             *)
(* yaml.safe_load raises YAMLError.                                        *)
(***************************************************************************)
MissingFile == [t |-> "missing"]
YamlErrorFile == [t |-> "yaml_error"]

\* the file system: what open(file_path) and yaml.safe_load yield
FileContent(file_path) ==
    IF file_path = BasePath THEN base_file ELSE fragment_files[file_path.file]

\* an issue whose message starts with the given text
PrefixedIssue(prefix, kind, fields) ==
    [x \in {"prefix", "kind"} \cup DOMAIN fields |->
        CASE x = "prefix" -> prefix
          [] x = "kind"   -> kind
          [] OTHER        -> fields[x]]

\* "Error parsing YAML file {file_path}: {e}"
YamlParseIssue(file_path) ==
    PrefixedIssue("Error parsing YAML file", "yaml_parse_error",
                  [source_file |-> file_path])

\* "Error: Required environment variable '{env_var_name}' not found for string '{data}'."
EnvVarIssue(env_var_name, data) ==
    ErrorIssue("env_var_not_found", [variable |-> env_var_name, text |-> data])

\* "Error: Skipping {file_path}: Expected a dictionary at root, but got ..."
FragmentRootIssue(file_path, config) ==
    ErrorIssue("fragment_root_not_dict", [source_file |-> file_path, value |-> config])

\* "Error: Expected a list for '{component_name}' in {file_path}, but got ..."
ComponentNotListIssue(component_name, file_path) ==
    ErrorIssue("component_not_list",
               [component |-> component_name, source_file |-> file_path])

\* "Error: Invalid format for {base_config_path}: Expected a dictionary at root, ..."
BaseRootIssue(base_config_path) ==
    ErrorIssue("base_root_not_dict", [source_file |-> base_config_path])

\* "Error: 'receivers' in '{base_config_path}' must be a list."
BaseReceiversIssue(base_config_path) ==
    ErrorIssue("base_receivers_not_list", [source_file |-> base_config_path])

\* "Error: Invalid or empty receiver name at 'route.receiver' in file '{base_config_path}'."
RootReceiverInvalidIssue(base_config_path) ==
    ErrorIssue("root_receiver_invalid", [source_file |-> base_config_path])

\* "Error: Root receiver '{root_receiver}' referenced at 'route.receiver' in file
\* '{base_config_path}' is not defined in any 'receivers' section."
RootReceiverIssue(root_receiver, base_config_path) ==
    ErrorIssue("root_receiver_undefined",
               [receiver |-> root_receiver, source_file |-> base_config_path])

\* "Error adding time_interval from file: {e}"
TimeIntervalIssue(e) ==
    PrefixedIssue("Error adding time_interval from file:", "time_interval_rejected",
                  [error |-> e])

\* data.startswith("$") and data[1:].upper(), for the strings of the model:
\* the domain holds the strings that start with "$".
EnvVarName ==
    [x \in {"$smtp_from", "$missing_var"} |->
        IF x = "$smtp_from" THEN "SMTP_FROM" ELSE "MISSING_VAR"]

RECURSIVE replace_env_vars(_, _)
RECURSIVE ReplaceInFields(_, _, _)
RECURSIVE ReplaceInItems(_, _, _)

\* {k: self.replace_env_vars(v) for k, v in data.items()}, from the given keys on
ReplaceInFields(self, d, keys) ==
    IF keys = <<>> THEN [self |-> self, fields |-> d]
    ELSE LET r == replace_env_vars(self, d[Head(keys)])
             rest == ReplaceInFields(r.self, d, Tail(keys))
         IN  [self |-> rest.self,
              fields |-> [rest.fields EXCEPT ![Head(keys)] = r.data]]

\* [self.replace_env_vars(elem) for elem in data], from element i (from 1) on
ReplaceInItems(self, items, i) ==
    IF i > Len(items) THEN [self |-> self, items |-> <<>>]
    ELSE LET r == replace_env_vars(self, items[i])
             rest == ReplaceInItems(r.self, items, i + 1)
         IN  [self |-> rest.self, items |-> <<r.data>> \o rest.items]

\* replace_env_vars leaving an unresolved reference in place without an issue
ReplaceEnvVarsSilently(self, data) ==
    IF IsDict(data)
    THEN LET r == ReplaceInFields(self, data.fields, Keys(data.fields))
         IN  [self |-> r.self, data |-> YDict(r.fields)]
    ELSE IF IsList(data)
    THEN LET r == ReplaceInItems(self, data.items, 1)
         IN  [self |-> r.self, data |-> YList(r.items)]
    ELSE IF IsStr(data) /\ data.s \in DOMAIN EnvVarName
    THEN LET env_var_name == EnvVarName[data.s]
         IN  IF env_var_name \in DOMAIN environ
             THEN [self |-> self, data |-> YStr(environ[env_var_name])]
             ELSE [self |-> self, data |-> data]
    ELSE [self |-> self, data |-> data]

\* ConfigManager.replace_env_vars
replace_env_vars(self, data) ==
    IF IsDict(data)
    THEN LET r == ReplaceInFields(self, data.fields, Keys(data.fields))
         IN  [self |-> r.self, data |-> YDict(r.fields)]
    ELSE IF IsList(data)
    THEN LET r == ReplaceInItems(self, data.items, 1)
         IN  [self |-> r.self, data |-> YList(r.items)]
    ELSE IF IsStr(data) /\ data.s \in DOMAIN EnvVarName
    THEN LET env_var_name == EnvVarName[data.s]
         IN  IF env_var_name \in DOMAIN environ
             THEN [self |-> self, data |-> YStr(environ[env_var_name])]
             ELSE [self |-> AddIssue(self, EnvVarIssue(env_var_name, data.s)),
                   data |-> data]
    ELSE [self |-> self, data |-> data]

\* ConfigManager.read_yaml_file
read_yaml_file(self, file_path) ==
    LET content == FileContent(file_path)
    IN  IF content = MissingFile THEN [self |-> self, data |-> YNone]
        ELSE IF content = YamlErrorFile
        THEN [self |-> AddIssue(self, YamlParseIssue(file_path)), data |-> YNone]
        ELSE replace_env_vars(self, content)

(***************************************************************************)
(* UniqueList: items_list and unique_keys. add_item raises ValueError with *)
(* one of four messages; the result carries the message's kind in error,   *)
(* "none" when the item was added.                                         *)
(***************************************************************************)
EmptyUniqueList == [items_list |-> <<>>, unique_keys |-> {}]

\* UniqueList.add_item
add_item(ul, item) ==
    IF ~IsDict(item) THEN [ul |-> ul, error |-> "expected_dictionary"]
    ELSE LET key_value == DictGet(item, "name")
         IN  IF IsNone(key_value) THEN [ul |-> ul, error |-> "no_key"]
             ELSE IF ~IsStr(key_value) \/ Falsy(key_value)
             THEN [ul |-> ul, error |-> "invalid_key"]
             ELSE IF key_value.s \in ul.unique_keys
             THEN [ul |-> ul, error |-> "already_exists"]
             ELSE [ul |-> [items_list |-> Append(ul.items_list, item),
                           unique_keys |-> ul.unique_keys \cup {key_value.s}],
                   error |-> "none"]

\* UniqueList.__init__: the loop over initial_list from element i (from 1) on;
\* the first ValueError leaves the constructor.
RECURSIVE UniqueListInit(_, _, _)
UniqueListInit(ul, initial_list, i) ==
    IF i > Len(initial_list) THEN [ul |-> ul, error |-> "none"]
    ELSE LET r == add_item(ul, initial_list[i])
         IN  IF r.error # "none" THEN r
             ELSE UniqueListInit(r.ul, initial_list, i + 1)

\* render's loop over the fragments' time intervals from element i (from 1)
\* on: a ValueError of add_item becomes an issue and the loop goes on.
RECURSIVE IntervalLoop(_, _, _, _)
IntervalLoop(self, ul, intervals, i) ==
    IF i > Len(intervals) THEN [self |-> self, ul |-> ul]
    ELSE LET r == add_item(ul, intervals[i])
         IN  IntervalLoop(IF r.error = "none" THEN self
                          ELSE AddIssue(self, TimeIntervalIssue(r.error)),
                          r.ul, intervals, i + 1)

(***************************************************************************)
(* find_and_load_routing_configs. The state of the walk is the manager,    *)
(* the routing_config collected so far (three lists) and whether an        *)
(* exception left the method.                                              *)
(***************************************************************************)
EmptyRoutingConfig == [receivers |-> <<>>, routes |-> <<>>, time_intervals |-> <<>>]

Walk(self, config, raised) == [self |-> self, routing_config |-> config, raised |-> raised]

\* sub in s (the substring test), for the keys of the model's documents
Contains(s, sub) ==
    CASE sub = "receiver" -> s \in {"receiver", "receivers"}
      [] sub = "routes"   -> s = "routes"
      [] OTHER            -> s = sub

\* _validate_route_receiver_reference handed a string s: "receiver" in s and
\* "routes" in s are substring tests, and s["receiver"], s["routes"] raise
\* TypeError; a string holding neither passes without an issue.
ValidateStringRaises(s) == Contains(s, "receiver") \/ Contains(s, "routes")

\* for receiver in component_data: self._add_receiver_to_master_list(receiver, file_path)
RECURSIVE AddReceiversLoop(_, _, _, _)
AddReceiversLoop(self, component_data, i, file_path) ==
    IF i > Len(component_data) THEN self
    ELSE AddReceiversLoop(add_receiver_to_master_list(self, component_data[i], file_path),
                          component_data, i + 1, file_path)

\* for i, route_node in enumerate(component_data):
\*     self._validate_route_receiver_reference(route_node, f"routes[{i}]", file_path)
RECURSIVE ValidateRoutesLoop(_, _, _, _)
ValidateRoutesLoop(self, component_data, i, file_path) ==
    IF i > Len(component_data) THEN self
    ELSE ValidateRoutesLoop(
             validate_route_receiver_reference(self, component_data[i],
                                               RoutesPath(i - 1), file_path),
             component_data, i + 1, file_path)

\* list.extend(d) for a dict d: the keys of d, which are strings
KeyItems(keys) == [i \in 1..Len(keys) |-> YStr(keys[i])]

\* the component body going on to the next component after a wrong-typed value
LoadComponentNoBreak(w, component_name, component_data, file_path) ==
    IF ~IsList(component_data)
    THEN IF component_name = "routes" /\ IsDict(component_data)
         THEN LET self1 == validate_route_receiver_reference(
                               w.self, component_data, PathLabel("route", <<>>), file_path)
                  config1 == [w.routing_config EXCEPT !.routes = Append(@, component_data)]
                  keys == Keys(component_data.fields)
              IN  IF \E k \in DOMAIN component_data.fields : ValidateStringRaises(k)
                  THEN [w |-> Walk(self1, config1, TRUE), stop |-> TRUE]
                  ELSE [w |-> Walk(self1,
                                   [config1 EXCEPT !.routes = @ \o KeyItems(keys)],
                                   FALSE),
                        stop |-> FALSE]
         ELSE [w |-> Walk(AddIssue(w.self, ComponentNotListIssue(component_name, file_path)),
                          w.routing_config, FALSE),
               stop |-> FALSE]
    ELSE LET self1 ==
                 CASE component_name = "receivers" ->
                          AddReceiversLoop(w.self, component_data.items, 1, file_path)
                   [] component_name = "routes" ->
                          ValidateRoutesLoop(w.self, component_data.items, 1, file_path)
                   [] OTHER -> w.self
         IN  [w |-> Walk(self1,
                         [w.routing_config EXCEPT ![component_name] = @ \o component_data.items],
                         FALSE),
              stop |-> FALSE]

\* the body of "if component_name in config" for one component of one file;
\* stop tells the component loop to break
LoadComponent(w, component_name, component_data, file_path) ==
    IF ~IsList(component_data)
    THEN IF component_name = "routes" /\ IsDict(component_data)
         THEN \* the single mapping is appended and validated; the code then goes
              \* on to the list branch with the mapping itself as component_data
              LET self1 == validate_route_receiver_reference(
                               w.self, component_data, PathLabel("route", <<>>), file_path)
                  config1 == [w.routing_config EXCEPT !.routes = Append(@, component_data)]
                  keys == Keys(component_data.fields)
              IN  IF \E k \in DOMAIN component_data.fields : ValidateStringRaises(k)
                  THEN [w |-> Walk(self1, config1, TRUE), stop |-> TRUE]
                  ELSE [w |-> Walk(self1,
                                   [config1 EXCEPT !.routes = @ \o KeyItems(keys)],
                                   FALSE),
                        stop |-> FALSE]
         ELSE [w |-> Walk(AddIssue(w.self, ComponentNotListIssue(component_name, file_path)),
                          w.routing_config, FALSE),
               stop |-> TRUE]
    ELSE LET self1 ==
                 CASE component_name = "receivers" ->
                          AddReceiversLoop(w.self, component_data.items, 1, file_path)
                   [] component_name = "routes" ->
                          ValidateRoutesLoop(w.self, component_data.items, 1, file_path)
                   [] OTHER -> w.self
         IN  [w |-> Walk(self1,
                         [w.routing_config EXCEPT ![component_name] = @ \o component_data.items],
                         FALSE),
              stop |-> FALSE]

\* for component_name in ["receivers", "routes", "time_intervals"], from the
\* given names on
RECURSIVE ComponentLoop(_, _, _, _)
ComponentLoop(w, config, names, file_path) ==
    IF names = <<>> THEN w
    ELSE IF ~HasKey(config, Head(names))
    THEN ComponentLoop(w, config, Tail(names), file_path)
    ELSE LET r == LoadComponent(w, Head(names), config.fields[Head(names)], file_path)
         IN  IF r.stop THEN r.w
             ELSE ComponentLoop(r.w, config, Tail(names), file_path)

\* the file body skipping a file whose root is not a mapping without an issue
LoadRoutingFileSkipSilently(w, file_path) ==
    LET r == read_yaml_file(w.self, file_path)
        config == r.data
    IN  IF IsNone(config) \/ ~IsDict(config) THEN Walk(r.self, w.routing_config, FALSE)
        ELSE ComponentLoop(Walk(r.self, w.routing_config, FALSE), config,
                           <<"receivers", "routes", "time_intervals">>, file_path)

\* the body of the loop of find_and_load_routing_configs for one file
LoadRoutingFile(w, file_path) ==
    LET r == read_yaml_file(w.self, file_path)
        config == r.data
    IN  IF IsNone(config) THEN Walk(r.self, w.routing_config, FALSE)
        ELSE IF ~IsDict(config)
        THEN Walk(AddIssue(r.self, FragmentRootIssue(file_path, config)),
                  w.routing_config, FALSE)
        ELSE ComponentLoop(Walk(r.self, w.routing_config, FALSE), config,
                           <<"receivers", "routes", "time_intervals">>, file_path)

(***************************************************************************)
(* render, stage by stage.                                                 *)
(***************************************************************************)

\* [data["data"] for data in self.all_defined_receivers.values()]
RegistryData(registry) == [i \in 1..Len(registry) |-> registry[i].data]

\* the defaults with route.routes emptied whatever it held
WithRouteDefaultsEmptied(config) ==
    LET c1 == IF ~HasKey(config, "route") \/ ~IsDict(config.fields["route"])
              THEN DictPut(config, "route", YDict(EmptyDict)) ELSE config
        route == c1.fields["route"]
    IN  DictPut(c1, "route", DictPut(route, "routes", YList(<<>>)))

\* lines 449-465: route becomes {} unless it is a dict, route.routes becomes []
\* unless it is a list
WithRouteDefaults(config) ==
    LET c1 == IF ~HasKey(config, "route") \/ ~IsDict(config.fields["route"])
              THEN DictPut(config, "route", YDict(EmptyDict)) ELSE config
        route == c1.fields["route"]
    IN  IF ~HasKey(route, "routes") \/ ~IsList(route.fields["routes"])
        THEN DictPut(c1, "route", DictPut(route, "routes", YList(<<>>)))
        ELSE c1

\* lines 471-481: the check of the root route's receiver
CheckRootReceiver(self, route, base_config_path) ==
    IF HasKey(route, "receiver")
    THEN LET root_receiver == route.fields["receiver"]
         IN  IF ~IsStr(root_receiver) \/ Falsy(root_receiver)
             THEN AddIssue(self, RootReceiverInvalidIssue(base_config_path))
             ELSE IF root_receiver.s \notin RegistryNames(self.all_defined_receivers)
                  THEN AddIssue(self, RootReceiverIssue(root_receiver.s, base_config_path))
                  ELSE self
    ELSE self

\* alertmanager_config["route"]["routes"].extend(routes)
ExtendRoutes(config, routes) ==
    LET route == config.fields["route"]
    IN  DictPut(config, "route",
                DictPut(route, "routes", YList(route.fields["routes"].items \o routes)))

\* has_fatal_errors with every issue counted as fatal
HasFatalErrorsAnyIssue(issues) == issues # <<>>

\* lines 518-524: has_fatal_errors
has_fatal_errors(issues) == \E i \in 1..Len(issues) : StartsWithError(issues[i])

(***************************************************************************)
(* The files a pass is run on. In every receivers list the items are       *)
(* mappings, and in every routes list of a fragment the top-level items    *)
(* are mappings.                                                           *)
(***************************************************************************)
MaxFragments == 2

TimeInterval(name) == YDict([name |-> YStr(name)])

GlobalBlock(smtp_from) == YDict([smtp_from |-> YStr(smtp_from)])

BaseDoc(route, receiver_list) ==
    YDict([global |-> GlobalBlock("alerts@example.com"), route |-> route,
           receivers |-> receiver_list])

BaseFiles ==
    {MissingFile, YamlErrorFile, YList(<<>>),
     BaseDoc(RouteNode("default"), YList(<<ReceiverDef("default")>>)),
     DictPut(BaseDoc(RouteNodeWith("default", <<RouteNode("email")>>),
                     YList(<<ReceiverDef("default"), ReceiverDef("email")>>)),
             "time_intervals", YList(<<TimeInterval("offhours")>>)),
     BaseDoc(RouteNode("ghost"), YList(<<ReceiverDef("default")>>)),
     BaseDoc(RouteNodeWith("default", <<RouteNode("ghost")>>),
             YList(<<ReceiverDef("default")>>)),
     BaseDoc(RouteNode("email"), YList(<<ReceiverDef("default")>>)),
     BaseDoc(RouteNode("default"), YStr("none")),
     BaseDoc(RouteNode("default"),
             YList(<<ReceiverDef("default"), ReceiverDef("default")>>)),
     YDict([receivers |-> YList(<<ReceiverDef("default")>>)]),
     DictPut(BaseDoc(RouteNode("default"), YList(<<ReceiverDef("default")>>)),
             "time_intervals",
             YList(<<TimeInterval("offhours"), TimeInterval("offhours")>>)),
     YDict([global |-> GlobalBlock("$smtp_from"), route |-> RouteNode("default"),
            receivers |-> YList(<<ReceiverDef("default")>>)]),
     YDict([global |-> GlobalBlock("$missing_var"), route |-> RouteNode("default"),
            receivers |-> YList(<<ReceiverDef("default")>>)])}

FragmentFiles ==
    {YDict([receivers |-> YList(<<ReceiverDef("email")>>)]),
     YDict([routes |-> YList(<<RouteNode("email")>>)]),
     YDict([routes |-> YList(<<RouteNodeWith("default", <<RouteNode("ghost")>>)>>)]),
     YDict([routes |-> RouteNode("email")]),
     YDict([routes |-> YDict([match |-> YDict([severity |-> YStr("critical")])])]),
     YDict([receivers |-> YStr("none"), routes |-> YList(<<RouteNode("ghost")>>)]),
     YDict([receivers |-> YList(<<ReceiverDef("email")>>), routes |-> YStr("none"),
            time_intervals |-> YList(<<TimeInterval("offhours")>>)]),
     YDict([time_intervals |-> YList(<<TimeInterval("offhours")>>)]),
     YDict([global |-> GlobalBlock("alerts@example.com")]),
     YDict([receivers |-> YList(<<WebhookReceiver("hook", "$missing_var")>>)]),
     YamlErrorFile,
     YStr("text")}

\* the sequences over S of length at most n
SeqsUpTo(S, n) == UNION {[1..k -> S] : k \in 0..n}

\* what alertmanager.yaml holds when an earlier pass left it behind
StaleOutput == YDict([receivers |-> YList(<<>>)])

Returned == {"returned", "raised", "done"}

\* ConfigManager(args) and the folder it is pointed at
InitRender ==
    /\ validation_issues = <<>>
    /\ all_defined_receivers = <<>>
    /\ call = [op |-> "render"]
    /\ pc = "start"
    /\ base_file \in BaseFiles
    /\ fragment_files \in SeqsUpTo(FragmentFiles, MaxFragments)
    /\ environ = [SMTP_FROM |-> "alerts@example.com"]
    /\ file_idx = 0
    /\ base_config = NoFile
    /\ routing_config = NoFile
    /\ alertmanager_config = NoFile
    /\ output_file \in {NoFile, StaleOutput}
    /\ rc = NoRc
    /\ EvalIdle
    /\ CliIdle

\* lines 392-413: the output file is removed and the base file is read
LoadBase ==
    LET r == read_yaml_file(Manager(validation_issues, all_defined_receivers), BasePath)
    IN  /\ pc = "start"
        /\ output_file' = NoFile
        /\ base_config' = r.data
        /\ IF IsNone(r.data)
           THEN /\ validation_issues' = r.self.validation_issues
                /\ pc' = "returned" /\ rc' = 1
                /\ UNCHANGED alertmanager_config
           ELSE IF ~IsDict(r.data)
           THEN /\ validation_issues' =
                       Append(r.self.validation_issues, BaseRootIssue(BasePath))
                /\ pc' = "returned" /\ rc' = 1
                /\ UNCHANGED alertmanager_config
           ELSE /\ validation_issues' = r.self.validation_issues
                /\ alertmanager_config' = r.data
                /\ pc' = "base_receivers"
                /\ UNCHANGED rc
        /\ UNCHANGED <<all_defined_receivers, call, base_file, fragment_files, environ,
                       file_idx, routing_config, evalVars, cliVars>>

\* lines 417-424, and the start of find_and_load_routing_configs (line 245)
RegisterBaseReceivers ==
    LET self == Manager(validation_issues, all_defined_receivers)
        self1 ==
            IF HasKey(base_config, "receivers")
            THEN IF ~IsList(base_config.fields["receivers"])
                 THEN AddIssue(self, BaseReceiversIssue(BasePath))
                 ELSE AddReceiversLoop(self, base_config.fields["receivers"].items, 1,
                                       BasePath)
            ELSE self
    IN  /\ pc = "base_receivers"
        /\ validation_issues' = self1.validation_issues
        /\ all_defined_receivers' = self1.all_defined_receivers
        /\ routing_config' = EmptyRoutingConfig
        /\ pc' = "walk"
        /\ UNCHANGED <<call, base_file, fragment_files, environ, file_idx, base_config,
                       alertmanager_config, output_file, rc, evalVars, cliVars>>

\* lines 250-332: the next file of the walk. An exception leaves render, and
\* the module-level render (lines 545-551) turns it into the return value 1.
ProcessFragmentFile ==
    LET w == LoadRoutingFile(
                 Walk(Manager(validation_issues, all_defined_receivers),
                      routing_config, FALSE),
                 FilePath(file_idx + 1))
    IN  /\ pc = "walk"
        /\ file_idx < Len(fragment_files)
        /\ validation_issues' = w.self.validation_issues
        /\ all_defined_receivers' = w.self.all_defined_receivers
        /\ routing_config' = w.routing_config
        /\ file_idx' = file_idx + 1
        /\ IF w.raised THEN pc' = "raised" /\ rc' = 1
                       ELSE UNCHANGED <<pc, rc>>
        /\ UNCHANGED <<call, base_file, fragment_files, environ, base_config,
                       alertmanager_config, output_file, evalVars, cliVars>>

\* lines 438-488: the receivers are consolidated and the fragments' routes
\* are appended to route.routes
IntegrateRoutes ==
    LET self == Manager(validation_issues, all_defined_receivers)
        config1 == WithRouteDefaults(
                       DictPut(alertmanager_config, "receivers",
                               YList(RegistryData(all_defined_receivers))))
        routes == routing_config.routes
        self1 == IF routes # <<>>
                 THEN CheckRootReceiver(self, config1.fields["route"], BasePath)
                 ELSE self
    IN  /\ pc = "walk"
        /\ file_idx = Len(fragment_files)
        /\ validation_issues' = self1.validation_issues
        /\ alertmanager_config' =
               IF routes # <<>> THEN ExtendRoutes(config1, routes) ELSE config1
        /\ pc' = "time_intervals"
        /\ UNCHANGED <<all_defined_receivers, call, base_file, fragment_files, environ,
                       file_idx, base_config, routing_config, output_file, rc, evalVars, cliVars>>

\* lines 490-515: the fragments' time intervals are merged into the base's.
\* A ValueError of the UniqueList constructor is not caught in render.
MergeTimeIntervals ==
    LET self == Manager(validation_issues, all_defined_receivers)
        config1 == IF ~HasKey(alertmanager_config, "time_intervals")
                      \/ ~IsList(alertmanager_config.fields["time_intervals"])
                   THEN DictPut(alertmanager_config, "time_intervals", YList(<<>>))
                   ELSE alertmanager_config
        intervals == routing_config.time_intervals
        existing_intervals ==
            UniqueListInit(EmptyUniqueList, config1.fields["time_intervals"].items, 1)
        merged == IntervalLoop(self, existing_intervals.ul, intervals, 1)
    IN  /\ pc = "time_intervals"
        /\ IF intervals = <<>>
           THEN /\ alertmanager_config' = config1
                /\ pc' = "finalize"
                /\ UNCHANGED <<validation_issues, rc>>
           ELSE IF existing_intervals.error # "none"
           THEN /\ alertmanager_config' = config1
                /\ pc' = "raised" /\ rc' = 1
                /\ UNCHANGED validation_issues
           ELSE /\ alertmanager_config' =
                       DictPut(config1, "time_intervals", YList(merged.ul.items_list))
                /\ validation_issues' = merged.self.validation_issues
                /\ pc' = "finalize"
                /\ UNCHANGED rc
        /\ UNCHANGED <<all_defined_receivers, call, base_file, fragment_files, environ,
                       file_idx, base_config, routing_config, output_file, evalVars, cliVars>>

\* lines 517-542: the final validation check and write_yaml_file, whose
\* open() and yaml.dump are taken to succeed
Finalize ==
    /\ pc = "finalize"
    /\ pc' = "done"
    /\ IF validation_issues # <<>> /\ has_fatal_errors(validation_issues)
       THEN rc' = 1 /\ UNCHANGED output_file
       ELSE rc' = 0 /\ output_file' = alertmanager_config
    /\ UNCHANGED <<validation_issues, all_defined_receivers, call, base_file,
                   fragment_files, environ, file_idx, base_config, routing_config,
                   alertmanager_config, evalVars, cliVars>>

NextRender ==
    \/ LoadBase
    \/ RegisterBaseReceivers
    \/ ProcessFragmentFile
    \/ IntegrateRoutes
    \/ MergeTimeIntervals
    \/ Finalize

SpecRender == InitRender /\ [][NextRender]_vars

(***************************************************************************)
(* axe/cli.py: one run of the axe command. main() parses the arguments and *)
(* calls the function of the subcommand; the process ends when main()      *)
(* returns or an exception leaves it.                                      *)
(*                                                                         *)
(* The file a tree or eval command reads is MissingFile, YamlErrorFile,    *)
(* an empty file (yaml.safe_load returns None) or a mapping.               *)
(***************************************************************************)
EmptyConfigFile == [t |-> "empty"]
ConfigFile(doc) == [t |-> "document", doc |-> doc]

ConfigDocs ==
    {SimpleConfigDoc, ContinueConfigDoc, [route |-> SimpleStopDoc],
     [route |-> ComplexRouteDoc], [global |-> [resolve_timeout |-> "5m"]]}

ConfigFiles ==
    {MissingFile, YamlErrorFile, EmptyConfigFile} \cup {ConfigFile(d) : d \in ConfigDocs}

\* the --alert option: not given, a name that does not end in .json, a .json
\* file that does not exist, one that is not JSON, one that holds labels
AlertOptions ==
    {[t |-> "absent"], [t |-> "not_json_name"], [t |-> "missing"], [t |-> "invalid_json"]}
    \cup {[t |-> "labels", labels |-> labels] : labels \in Alerts}

CliArgs ==
    {[command |-> c] : c \in {"", "tree", "render"}}
    \cup {[command |-> "eval", alert |-> a] : a \in AlertOptions}

\* tree.tree(args): the value it returns, or escaped when an exception it
\* does not catch leaves it ("route" in None raises TypeError)
tree(file) ==
    CASE file = MissingFile     -> [escaped |-> FALSE, ret |-> 1]
      [] file = YamlErrorFile   -> [escaped |-> FALSE, ret |-> 1]
      [] file = EmptyConfigFile -> [escaped |-> TRUE]
      [] OTHER -> IF "route" \in DOMAIN file.doc
                  THEN [escaped |-> FALSE, ret |-> 0]
                  ELSE [escaped |-> FALSE, ret |-> 1]

\* route_evaluator.evaluate(args): every exception is caught and gives 1.
\* A name without .json leaves alert_labels unbound, no --alert makes
\* args.alert.endswith raise, an empty file makes "route" in config raise.
evaluate(file, alert) ==
    CASE file = MissingFile     -> [ret |-> 1]
      [] file = YamlErrorFile   -> [ret |-> 1]
      [] file = EmptyConfigFile -> [ret |-> 1]
      [] OTHER ->
           IF "route" \notin DOMAIN file.doc THEN [ret |-> 1]
           ELSE IF alert.t # "labels" THEN [ret |-> 1]
           ELSE [ret |-> 0,
                 route_config |-> file.doc["route"],
                 result |-> evaluate_alert(Route(file.doc["route"], TRUE), alert.labels)]

InitCli ==
    /\ argv \in CliArgs
    /\ exit_code = NoExit
    /\ validation_issues = <<>>
    /\ all_defined_receivers = <<>>
    /\ call = [op |-> "main"]
    /\ pc = "main"
    /\ base_file \in (CASE argv.command = "render" -> BaseFiles
                        [] argv.command = ""       -> {NoFile}
                        [] OTHER                   -> ConfigFiles)
    /\ fragment_files \in (IF argv.command = "render"
                           THEN SeqsUpTo(FragmentFiles, MaxFragments) ELSE {<<>>})
    /\ environ = [SMTP_FROM |-> "alerts@example.com"]
    /\ file_idx = 0
    /\ base_config = NoFile
    /\ routing_config = NoFile
    /\ alertmanager_config = NoFile
    /\ output_file \in (IF argv.command = "render" THEN {NoFile, StaleOutput} ELSE {NoFile})
    /\ rc = NoRc
    /\ EvalIdle

\* main, lines 48-49, for axe tree: args.func(args) is tree(args)
MainTree ==
    LET r == tree(base_file)
    IN  /\ pc = "main"
        /\ argv.command = "tree"
        /\ IF r.escaped THEN pc' = "escaped" /\ UNCHANGED rc
                        ELSE pc' = "returned" /\ rc' = r.ret
        /\ UNCHANGED <<validation_issues, all_defined_receivers, call, base_file,
                       fragment_files, environ, file_idx, base_config, routing_config,
                       alertmanager_config, output_file, evalVars, cliVars>>

\* main, lines 48-49, for axe eval: args.func(args) is evaluate(args)
MainEval ==
    LET r == evaluate(base_file, argv.alert)
    IN  /\ pc = "main"
        /\ argv.command = "eval"
        /\ pc' = "returned"
        /\ rc' = r.ret
        /\ IF r.ret = 0
           THEN /\ route_data' = r.route_config
                /\ root_route' = Route(r.route_config, TRUE)
                /\ alert_labels' = argv.alert.labels
                /\ receivers' = r.result.receivers
                /\ visited' = r.result.visited
                /\ added' = r.result.added
                /\ epc' = "evaluated"
           ELSE UNCHANGED evalVars
        /\ UNCHANGED <<validation_issues, all_defined_receivers, call, base_file,
                       fragment_files, environ, file_idx, base_config, routing_config,
                       alertmanager_config, output_file, cliVars>>

\* main, lines 48-49, for axe render: args.func(args) is the module's render,
\* which builds a ConfigManager and runs its render(), modelled step by step
MainRender ==
    /\ pc = "main"
    /\ argv.command = "render"
    /\ pc' = "start"
    /\ call' = [op |-> "render"]
    /\ UNCHANGED <<validation_issues, all_defined_receivers, base_file,
                   fragment_files, environ, file_idx, base_config, routing_config,
                   alertmanager_config, output_file, rc, evalVars, cliVars>>

\* main, lines 50-51: without a subcommand the help is printed
MainHelp ==
    /\ pc = "main"
    /\ argv.command = ""
    /\ pc' = "returned"
    /\ UNCHANGED <<validation_issues, all_defined_receivers, call, base_file,
                   fragment_files, environ, file_idx, base_config, routing_config,
                   alertmanager_config, output_file, rc, evalVars, cliVars>>

\* the end of the process: main() returns None whatever args.func returned,
\* which gives exit code 0; an exception that left main() gives 1
MainExit ==
    /\ pc \in Returned \cup {"escaped"}
    /\ exit_code = NoExit
    /\ exit_code' = (IF pc = "escaped" THEN 1 ELSE 0)
    /\ pc' = "exited"
    /\ UNCHANGED <<validation_issues, all_defined_receivers, call, base_file,
                   fragment_files, environ, file_idx, base_config, routing_config,
                   alertmanager_config, output_file, rc, evalVars, argv>>

NextCli ==
    \/ MainTree
    \/ MainEval
    \/ MainRender
    \/ MainHelp
    \/ NextRender
    \/ MainExit

SpecCli == InitCli /\ [][NextCli]_vars

(***************************************************************************)
(* Claims about the route evaluator, checked under SpecEval.               *)
(***************************************************************************)

\* C1: after evaluate_alert, every visited node n that matches the alert added
\* its own receiver exactly when no child of n both matches the alert and has
\* continue = false; when such a child exists, every receiver contributed
\* below n comes from a child up to and including the first stopping child.
\* The result is the set of receivers of the nodes that added, and the tree
\* {default, [email if severity=critical, continue false]} yields <<"email">>
\* for a critical alert.
C1_OwnReceiverIffNoStoppingChild ==
    epc = "evaluated" =>
        /\ \A p \in Range(visited) :
              LET n == NodeAt(root_route, p)
                  S == StoppingChildren(n, alert_labels)
              IN  matches_alert(n, alert_labels) =>
                    /\ (p \in added) <=> (S = {})
                    /\ S # {} =>
                          \A q \in added :
                              IsPrefix(p, q) =>
                                  Len(q) > Len(p) /\ q[Len(p) + 1] <= SetMin(S)
        /\ Range(receivers) = {NodeAt(root_route, q).receiver : q \in added}
        /\ (route_data = SimpleStopDoc /\ alert_labels["severity"] = "critical")
              => receivers = <<"email">>

\* C1 witness: a matching node whose second child stops it, after its first
\* child contributed a receiver.
C1_Witness ==
    /\ epc = "evaluated"
    /\ \E p \in Range(visited) :
          LET n == NodeAt(root_route, p)
              S == StoppingChildren(n, alert_labels)
          IN  /\ matches_alert(n, alert_labels)
              /\ S # {}
              /\ SetMin(S) = 2
              /\ Append(p, 1) \in added
              /\ p \notin added

\* C2 as stated: the root's receiver name is in the result if and only if no
\* immediate child of the root both matches the alert and has continue = false.
C2_RootIffNoStoppingChild ==
    epc = "evaluated" =>
        ((root_route.receiver \in Range(receivers))
            <=> (StoppingChildren(root_route, alert_labels) = {}))

\* C2 amended: when the root matches the alert, the root adds its own receiver
\* if and only if no immediate child both matches and has continue = false,
\* and the root's receiver name is in the result if and only if that is so or
\* another node that added its receiver carries the same name; when the root
\* does not match, the result is empty.
C2_RootAmended ==
    epc = "evaluated" =>
        LET S == StoppingChildren(root_route, alert_labels)
        IN  IF matches_alert(root_route, alert_labels)
            THEN /\ (<<>> \in added) <=> (S = {})
                 /\ (root_route.receiver \in Range(receivers))
                      <=> \/ S = {}
                          \/ \E q \in added :
                                /\ q # <<>>
                                /\ NodeAt(root_route, q).receiver = root_route.receiver
            ELSE receivers = <<>>

\* C2 witness: the root matches and is suppressed by a stopping child, and its
\* receiver name is still returned because another node carries it.
C2_Witness ==
    /\ epc = "evaluated"
    /\ matches_alert(root_route, alert_labels)
    /\ StoppingChildren(root_route, alert_labels) # {}
    /\ <<>> \notin added
    /\ root_route.receiver \in Range(receivers)

\* C3 as stated: every name evaluate_alert returns is the receiver field of
\* some node of the document the evaluator was built from.
C3_NamesFromDocument ==
    epc = "evaluated" => Range(receivers) \subseteq DocReceivers(route_data)

\* C3 amended: every name evaluate_alert returns is the receiver field of some
\* node of the document, or is "default" when some node of the document has
\* no receiver field.
C3_NamesFromDocumentOrDefault ==
    epc = "evaluated" =>
        Range(receivers) \subseteq
            DocReceivers(route_data)
            \cup (IF SomeNodeLacksReceiver(route_data) THEN {"default"} ELSE {})

\* C3 witness: "default" is returned for a document that writes it nowhere.
C3_Witness ==
    /\ epc = "evaluated"
    /\ "default" \in Range(receivers)
    /\ "default" \notin DocReceivers(route_data)

\* C4: in a tree whose non-root nodes all have continue = true, the nodes that
\* add their receiver are exactly the nodes that match the alert and all of
\* whose ancestors match it, and the result is exactly their receivers; the
\* nested example returns default, email, pagerduty for a production critical
\* alert and default, email for a staging critical alert.
C4_AllContinueReturnsMatchingChains ==
    (epc = "evaluated" /\ AllNonRootContinue(root_route)) =>
        /\ added = MatchingChains(root_route, alert_labels)
        /\ Range(receivers) =
              {NodeAt(root_route, p).receiver : p \in MatchingChains(root_route, alert_labels)}
        /\ (/\ route_data = ComplexRouteDoc
            /\ alert_labels["severity"] = "critical"
            /\ Get(alert_labels, "environment", "") = "production")
              => receivers = <<"default", "email", "pagerduty">>
        /\ (/\ route_data = ComplexRouteDoc
            /\ alert_labels["severity"] = "critical"
            /\ Get(alert_labels, "environment", "") = "staging")
              => receivers = <<"default", "email">>

\* C4 witness: the nested example evaluated on a production critical alert.
C4_Witness ==
    /\ epc = "evaluated"
    /\ route_data = ComplexRouteDoc
    /\ AllNonRootContinue(root_route)
    /\ receivers = <<"default", "email", "pagerduty">>

(***************************************************************************)
(* Claims about the ConfigManager's methods, checked under SpecApi.        *)
(***************************************************************************)

\* the suffix a step appended to the issue sequence
NewIssues == SubSeq(validation_issues', Len(validation_issues) + 1, Len(validation_issues'))

\* the route nodes of a well-formed subtree, each with the path label the
\* validator gives it
RECURSIVE LabelledNodes(_, _)
LabelledNodes(route_node, path) ==
    {[node |-> route_node, path |-> path]}
    \cup (IF HasKey(route_node, "routes")
          THEN UNION {LabelledNodes(route_node.fields["routes"].items[i], SubRoutePath(path, i - 1))
                      : i \in 1..Len(route_node.fields["routes"].items)}
          ELSE {})

\* whether every node of the subtree is a mapping with a non-empty string
\* receiver, its routes (where present) a list of such nodes
RECURSIVE AllNodesNameReceivers(_)
AllNodesNameReceivers(route_node) ==
    /\ IsDict(route_node)
    /\ HasKey(route_node, "receiver")
    /\ IsStr(route_node.fields["receiver"])
    /\ route_node.fields["receiver"].s # ""
    /\ HasKey(route_node, "routes") =>
          /\ IsList(route_node.fields["routes"])
          /\ \A i \in 1..Len(route_node.fields["routes"].items) :
                AllNodesNameReceivers(route_node.fields["routes"].items[i])

\* C6: a call of _add_receiver_to_master_list with a definition whose name is
\* missing or empty, or is already registered, appends exactly one issue (a
\* fatal one; for a duplicate the issue names the receiver, the source of the
\* registered entry and the source of the duplicate) and leaves the registry,
\* with the first definition and its source, unchanged.
C6_RejectedInsertKeepsRegistry ==
    [][(call'.op = "add_receiver") =>
          LET receiver_name == DictGet(call'.receiver_data, "name")
              duplicate == /\ IsStr(receiver_name)
                           /\ receiver_name.s \in RegistryNames(all_defined_receivers)
          IN  (IsNone(receiver_name) \/ receiver_name = YStr("") \/ duplicate) =>
                /\ Len(validation_issues') = Len(validation_issues) + 1
                /\ SubSeq(validation_issues', 1, Len(validation_issues)) = validation_issues
                /\ StartsWithError(NewIssues[1])
                /\ duplicate =>
                      NewIssues[1] =
                          DuplicateIssue(receiver_name.s,
                              RegistryEntry(all_defined_receivers, receiver_name.s).source_file,
                              call'.source_file)
                /\ all_defined_receivers' = all_defined_receivers
      ]_vars

\* C6 witness: a duplicate insert from another source was reported, and the
\* entry of the first source is still the registered one.
C6_Witness ==
    /\ call.op = "add_receiver"
    /\ validation_issues # <<>>
    /\ LET last == validation_issues[Len(validation_issues)]
       IN  /\ last.kind = "duplicate_receiver"
           /\ last.existing_source # last.source_file
           /\ last.source_file = call.source_file
           /\ RegistryEntry(all_defined_receivers, last.receiver).source_file
                 = last.existing_source
           /\ RegistryEntry(all_defined_receivers, last.receiver).data # call.receiver_data

\* C10: a call of _validate_route_receiver_reference on a subtree whose nodes
\* are all mappings with non-empty string receivers (routes, where present,
\* being lists of such nodes) appends exactly one unresolved-reference issue
\* for each node, at any depth, whose receiver is not in the registry, naming
\* the receiver, the node's path and the source file; it appends nothing else,
\* so nothing when every receiver is registered; and it never changes the
\* registry.
C10_OneUnresolvedIssuePerDanglingNode ==
    [][(call'.op = "validate_route" /\ AllNodesNameReceivers(call'.route_node)) =>
          LET dangling ==
                  {n \in LabelledNodes(call'.route_node, call'.path) :
                      n.node.fields["receiver"].s \notin RegistryNames(all_defined_receivers)}
          IN  /\ SubSeq(validation_issues', 1, Len(validation_issues)) = validation_issues
              /\ Len(NewIssues) = Cardinality(dangling)
              /\ Range(NewIssues) =
                    {UnresolvedIssue(n.node.fields["receiver"].s, n.path, call'.source_file)
                     : n \in dangling}
              /\ all_defined_receivers' = all_defined_receivers
      ]_vars

\* C10 witness: a validated subtree of depth three in which a nested node's
\* receiver is unresolved while another node's receiver is registered.
C10_Witness ==
    /\ call.op = "validate_route"
    /\ AllNodesNameReceivers(call.route_node)
    /\ validation_issues # <<>>
    /\ LET last == validation_issues[Len(validation_issues)]
       IN  /\ last.kind = "unresolved_receiver"
           /\ last.path = SubRoutePath(SubRoutePath(call.path, 0), 0)
    /\ \E n \in LabelledNodes(call.route_node, call.path) :
          n.node.fields["receiver"].s \in RegistryNames(all_defined_receivers)

(***************************************************************************)
(* Claims about an assembly pass, checked under SpecRender.                *)
(***************************************************************************)

\* the names a file's receivers block defines
DeclaredReceiverNames(file) ==
    IF file \in {MissingFile, YamlErrorFile} \/ ~IsDict(file) THEN {}
    ELSE IF ~HasKey(file, "receivers") \/ ~IsList(file.fields["receivers"]) THEN {}
    ELSE {DictGet(r, "name").s :
             r \in {x \in Range(file.fields["receivers"].items) :
                       IsDict(x) /\ IsStr(DictGet(x, "name"))}}

\* the names defined by the base document or by any fragment
AllDeclaredNames ==
    DeclaredReceiverNames(base_file)
    \cup UNION {DeclaredReceiverNames(fragment_files[i]) : i \in 1..Len(fragment_files)}

\* the mappings of a route tree, the root included
RECURSIVE RouteTreeNodes(_)
RouteTreeNodes(node) ==
    IF ~IsDict(node) THEN {}
    ELSE {node}
         \cup (IF HasKey(node, "routes") /\ IsList(node.fields["routes"])
               THEN UNION {RouteTreeNodes(node.fields["routes"].items[i])
                           : i \in 1..Len(node.fields["routes"].items)}
               ELSE {})

\* whether the node names a receiver: a non-empty string
NamesReceiver(node) ==
    /\ HasKey(node, "receiver")
    /\ IsStr(node.fields["receiver"])
    /\ node.fields["receiver"].s # ""

\* whether an issue beginning with "Error:" has been recorded
SomeFatalIssue ==
    \E i \in 1..Len(validation_issues) : StartsWithError(validation_issues[i])

\* C5: within one pass, a fragment route that references a receiver defined in
\* the base document or in any fragment produces no unresolved-reference
\* issue, whatever the order in which the fragment files are processed: no
\* unresolved-reference issue of a fragment names a receiver that some
\* receivers block of the folder defines.
C5_DefinedAnywhereNeverUnresolved ==
    \A i \in 1..Len(validation_issues) :
        LET issue == validation_issues[i]
        IN  (issue.kind = "unresolved_receiver" /\ issue.source_file # BasePath)
                => issue.receiver \notin AllDeclaredNames

C8_EveryUndefinedReferenceFailsPass ==
    pc = "done" =>
        \A n \in RouteTreeNodes(alertmanager_config.fields["route"]) :
            (NamesReceiver(n) /\ n.fields["receiver"].s \notin AllDeclaredNames) =>
                /\ \E i \in 1..Len(validation_issues) :
                      /\ validation_issues[i].kind
                            \in {"unresolved_receiver", "root_receiver_undefined"}
                      /\ validation_issues[i].receiver = n.fields["receiver"].s
                /\ rc = 1
                /\ output_file = NoFile

\* C9: when a pass has gone through Finalize and the base document's root
\* route names a receiver that is not in the final registry, the pass has
\* failed and a fatal issue is recorded, whether or not a fragment
\* contributed a route.
C9_UndefinedRootReceiverFailsPass ==
    (/\ pc = "done"
     /\ HasKey(base_config, "route")
     /\ IsDict(base_config.fields["route"])
     /\ NamesReceiver(base_config.fields["route"])
     /\ base_config.fields["route"].fields["receiver"].s
           \notin RegistryNames(all_defined_receivers))
        => (rc = 1 /\ SomeFatalIssue)

\* the strings held, at any depth, by the values of a parsed document
RECURSIVE StringsIn(_)
StringsIn(data) ==
    IF IsStr(data) THEN {data.s}
    ELSE IF IsList(data)
    THEN UNION {StringsIn(data.items[i]) : i \in 1..Len(data.items)}
    ELSE IF IsDict(data)
    THEN UNION {StringsIn(data.fields[k]) : k \in DOMAIN data.fields}
    ELSE {}

\* the "$NAME" strings of a document whose variable is not in the environment
UnresolvedRefs(data) ==
    {s \in StringsIn(data) : s \in DOMAIN EnvVarName /\ EnvVarName[s] \notin DOMAIN environ}

\* the "$NAME" strings of a document whose variable is in the environment
ResolvedRefs(data) ==
    {s \in StringsIn(data) : s \in DOMAIN EnvVarName /\ EnvVarName[s] \in DOMAIN environ}

\* whether the base file was parsed
BaseParsed == pc # "start" /\ base_file \notin {MissingFile, YamlErrorFile}

\* the issues recorded for unresolved environment references
EnvIssues ==
    {i \in 1..Len(validation_issues) : validation_issues[i].kind = "env_var_not_found"}

\* C11 as stated: an unresolved $NAME reference is recorded as an issue, the
\* literal string stays in the loaded document, and a pass that went through
\* Finalize with no issues other than unresolved environment references has
\* produced the combined document.
C11_UnresolvedEnvIsNonFatal ==
    /\ BaseParsed =>
          \A s \in UnresolvedRefs(base_file) :
              /\ \E i \in EnvIssues : validation_issues[i] = EnvVarIssue(EnvVarName[s], s)
              /\ s \in StringsIn(base_config)
    /\ (pc = "done" /\ EnvIssues # {} /\ EnvIssues = 1..Len(validation_issues))
          => output_file # NoFile

\* C11 amended: an unresolved $NAME reference of the base file is recorded as
\* an "Error:" issue naming the variable and the string, and the literal
\* string stays in the loaded document while resolved references are
\* replaced; issues of this kind are recorded only when some file holds an
\* unresolved reference; and a finished pass that recorded one has returned 1
\* and left no output document.
C11_UnresolvedEnvIsFatal ==
    /\ BaseParsed =>
          /\ \A s \in UnresolvedRefs(base_file) :
                /\ \E i \in EnvIssues : validation_issues[i] = EnvVarIssue(EnvVarName[s], s)
                /\ s \in StringsIn(base_config)
          /\ \A s \in ResolvedRefs(base_file) :
                /\ s \notin StringsIn(base_config)
                /\ environ[EnvVarName[s]] \in StringsIn(base_config)
    /\ \A i \in EnvIssues :
          /\ StartsWithError(validation_issues[i])
          /\ \/ validation_issues[i].text \in UnresolvedRefs(base_file)
             \/ \E j \in 1..file_idx :
                   /\ fragment_files[j] \notin {MissingFile, YamlErrorFile}
                   /\ validation_issues[i].text \in UnresolvedRefs(fragment_files[j])
    /\ (pc \in Returned /\ EnvIssues # {}) => (rc = 1 /\ output_file = NoFile)

\* C11 witness: a pass whose only issue is an unresolved environment reference
\* went through Finalize, with the literal string still in the configuration.
C11_Witness ==
    /\ pc = "done"
    /\ EnvIssues # {}
    /\ EnvIssues = 1..Len(validation_issues)
    /\ \E i \in EnvIssues : validation_issues[i].text \in StringsIn(alertmanager_config)
    /\ rc = 1

\* the issues recorded for fragment time intervals whose name was already taken
DuplicateIntervalIssues ==
    {i \in 1..Len(validation_issues) :
        /\ validation_issues[i].kind = "time_interval_rejected"
        /\ validation_issues[i].error = "already_exists"}

\* the names of the intervals of a list, in order
IntervalNames(intervals) == [i \in 1..Len(intervals) |-> DictGet(intervals[i], "name")]

\* the base document's time intervals, [] unless the key holds a list
BaseIntervals ==
    IF HasKey(base_config, "time_intervals") /\ IsList(base_config.fields["time_intervals"])
    THEN base_config.fields["time_intervals"].items
    ELSE <<>>

\* C12: when a pass has gone through Finalize, the merged time intervals hold
\* no name twice and start with the base document's intervals (a colliding
\* fragment interval was not inserted, the first of the name kept), and a pass
\* in which a fragment interval collided has an issue for it, has returned
\* failure and has left no output document.
C12_DuplicateIntervalFailsPass ==
    (pc = "done" /\ routing_config.time_intervals # <<>>) =>
        LET merged == alertmanager_config.fields["time_intervals"].items
            names == IntervalNames(merged)
            collided ==
                Len(merged) < Len(BaseIntervals) + Len(routing_config.time_intervals)
        IN  /\ \A i, j \in 1..Len(names) : names[i] = names[j] => i = j
            /\ SubSeq(merged, 1, Len(BaseIntervals)) = BaseIntervals
            /\ collided => DuplicateIntervalIssues # {}
            /\ DuplicateIntervalIssues # {} => (rc = 1 /\ output_file = NoFile)

\* whether the file is a mapping whose only recognized key is routes, holding
\* a single mapping
SingleMappingRoutes(file) ==
    /\ file \notin {MissingFile, YamlErrorFile}
    /\ IsDict(file)
    /\ HasKey(file, "routes") /\ IsDict(file.fields["routes"])
    /\ ~HasKey(file, "receivers") /\ ~HasKey(file, "time_intervals")

\* whether the step loads the next fragment file
LoadsFragment == pc = "walk" /\ file_idx' = file_idx + 1

\* C13: loading a fragment whose routes value is a single mapping does what
\* loading the one-element list holding that mapping does: no exception, the
\* issues of one reference validation of the mapping, and exactly one more
\* collected route, the mapping itself.
C13_SingleMappingLikeOneElementList ==
    [][(LoadsFragment /\ SingleMappingRoutes(fragment_files[file_idx'])) =>
          LET mapping == fragment_files[file_idx'].fields["routes"]
              once == validate_route_receiver_reference(
                          Manager(validation_issues, all_defined_receivers),
                          mapping, RoutesPath(0), FilePath(file_idx'))
          IN  /\ pc' # "raised"
              /\ Len(validation_issues') = Len(once.validation_issues)
              /\ routing_config'.routes = Append(routing_config.routes, mapping)
      ]_vars

\* whether the file parses to a value that is not a mapping (and not None)
NonMappingRoot(file) ==
    /\ file \notin {MissingFile, YamlErrorFile}
    /\ ~IsDict(file) /\ ~IsNone(file)

\* whether the file is a mapping with none of receivers, routes, time_intervals
NoExpectedKey(file) ==
    /\ file \notin {MissingFile, YamlErrorFile}
    /\ IsDict(file)
    /\ DOMAIN file.fields \cap {"receivers", "routes", "time_intervals"} = {}

\* whether the file holds no "$NAME" string
NoEnvRefs(file) == StringsIn(file) \cap DOMAIN EnvVarName = {}

ComponentNames == <<"receivers", "routes", "time_intervals">>

\* whether the file's n-th recognized key holds a wrong-typed value (not a
\* list, and not the single mapping allowed for routes) while the recognized
\* keys before it hold lists
WrongTypedAt(file, n) ==
    /\ file \notin {MissingFile, YamlErrorFile}
    /\ IsDict(file)
    /\ HasKey(file, ComponentNames[n])
    /\ ~IsList(file.fields[ComponentNames[n]])
    /\ ~(ComponentNames[n] = "routes" /\ IsDict(file.fields["routes"]))
    /\ \A m \in 1..(n - 1) :
          HasKey(file, ComponentNames[m]) => IsList(file.fields[ComponentNames[m]])

\* C15: loading a fragment with a wrong-typed value at a recognized key does
\* what loading its earlier keys does, then appends one fatal issue naming the
\* key and the file, and skips the remaining keys; the walk goes on with the
\* next file; the pass/fail decision is taken only after every file has been
\* loaded, leaves the issue sequence as it is and fails exactly when an
\* "Error:" issue is in it.
C15_WrongTypedKeyStopsOnlyItsFile ==
    [][/\ \A n \in 1..3 :
             (LoadsFragment /\ NoEnvRefs(fragment_files[file_idx'])
                  /\ WrongTypedAt(fragment_files[file_idx'], n)) =>
                LET before == ComponentLoop(
                                  Walk(Manager(validation_issues, all_defined_receivers),
                                       routing_config, FALSE),
                                  fragment_files[file_idx'],
                                  SubSeq(ComponentNames, 1, n - 1), FilePath(file_idx'))
                    issue == ComponentNotListIssue(ComponentNames[n], FilePath(file_idx'))
                IN  /\ StartsWithError(issue)
                    /\ validation_issues' = Append(before.self.validation_issues, issue)
                    /\ all_defined_receivers' = before.self.all_defined_receivers
                    /\ routing_config' = before.routing_config
                    /\ pc' = "walk" /\ rc' = rc
       /\ (pc = "walk" /\ pc' = "time_intervals") => file_idx = Len(fragment_files)
       /\ (pc = "finalize" /\ pc' = "done") =>
             /\ file_idx = Len(fragment_files)
             /\ validation_issues' = validation_issues
             /\ (rc' = 1) <=> SomeFatalIssue
      ]_vars

\* C15 witness: a finished pass whose first fragment had a wrong-typed
\* receivers value and a routes list that was skipped, and whose second
\* fragment's receiver was registered.
C15_Witness ==
    /\ pc = "done"
    /\ Len(fragment_files) = 2
    /\ WrongTypedAt(fragment_files[1], 1)
    /\ HasKey(fragment_files[1], "routes")
    /\ validation_issues = <<ComponentNotListIssue("receivers", FilePath(1))>>
    /\ \E i \in 1..Len(all_defined_receivers) :
          all_defined_receivers[i].source_file = FilePath(2)
    /\ rc = 1

\* whether a pass over a base document alone has succeeded
AssembledAlone == pc = "done" /\ fragment_files = <<>> /\ rc = 0

\* the base document's route with routes set to [] unless it holds a list, or
\* {routes: []} when the base document has no route mapping
DefaultedRoute ==
    LET route == IF HasKey(base_config, "route") /\ IsDict(base_config.fields["route"])
                 THEN base_config.fields["route"] ELSE YDict(EmptyDict)
    IN  IF HasKey(route, "routes") /\ IsList(route.fields["routes"])
        THEN route
        ELSE YDict([k \in DOMAIN route.fields \cup {"routes"} |->
                       IF k = "routes" THEN YList(<<>>) ELSE route.fields[k]])

\* C16 as stated: the document a successful pass over a base document alone
\* writes is the loaded base document with its receivers value replaced by
\* the registry contents, and nothing else added, removed or changed.
C16_BaseAloneUnchangedButReceivers ==
    AssembledAlone =>
        output_file = DictPut(base_config, "receivers",
                              YList(RegistryData(all_defined_receivers)))

\* C16 amended: the document a successful pass over a base document alone
\* writes has the keys of the loaded base document and route, receivers and
\* time_intervals; receivers is the registry contents, route is the base
\* route with routes defaulted to [] (or {routes: []}), time_intervals is the
\* base list or []; every other key has the base document's value.
C16_BaseAloneUpToDefaults ==
    AssembledAlone =>
        /\ IsDict(output_file)
        /\ DOMAIN output_file.fields =
              DOMAIN base_config.fields \cup {"receivers", "route", "time_intervals"}
        /\ output_file.fields["receivers"] = YList(RegistryData(all_defined_receivers))
        /\ output_file.fields["route"] = DefaultedRoute
        /\ output_file.fields["time_intervals"] = YList(BaseIntervals)
        /\ \A k \in DOMAIN base_config.fields \ {"receivers", "route", "time_intervals"} :
              output_file.fields[k] = base_config.fields[k]
        /\ (HasKey(base_config, "receivers") /\ validation_issues = <<>>) =>
              output_file.fields["receivers"] = base_config.fields["receivers"]

\* C16 witness: a successful pass over a base document alone, every route
\* node of which names a registered receiver, which had neither route.routes
\* nor time_intervals and whose written document has both.
C16_Witness ==
    /\ AssembledAlone
    /\ validation_issues = <<>>
    /\ HasKey(base_config, "route")
    /\ \A n \in RouteTreeNodes(base_config.fields["route"]) :
          /\ NamesReceiver(n)
          /\ n.fields["receiver"].s \in RegistryNames(all_defined_receivers)
    /\ ~HasKey(base_config.fields["route"], "routes")
    /\ ~HasKey(base_config, "time_intervals")
    /\ HasKey(output_file.fields["route"], "routes")
    /\ HasKey(output_file, "time_intervals")

\* the route mappings a fragment file declares, in declared order: none when
\* the file is skipped or its routes key is skipped or wrong-typed
FragmentRoutes(file) ==
    IF file \in {MissingFile, YamlErrorFile} \/ ~IsDict(file) THEN <<>>
    ELSE IF HasKey(file, "receivers") /\ ~IsList(file.fields["receivers"]) THEN <<>>
    ELSE IF ~HasKey(file, "routes") THEN <<>>
    ELSE IF IsList(file.fields["routes"]) THEN file.fields["routes"].items
    ELSE IF IsDict(file.fields["routes"]) THEN <<file.fields["routes"]>>
    ELSE <<>>

\* the route mappings of the first n fragment files, in file-discovery order
RECURSIVE FragmentRoutesUpTo(_)
FragmentRoutesUpTo(n) ==
    IF n = 0 THEN <<>>
    ELSE FragmentRoutesUpTo(n - 1) \o FragmentRoutes(fragment_files[n])

\* the base document's child routes, [] unless route.routes holds a list
BaseChildRoutes == DefaultedRoute.fields["routes"].items

\* C17: in the document a pass has written, route.routes is the base
\* document's child routes in their order followed by the fragments' route
\* mappings in file-discovery order and declared order, and nothing else.
C17_RoutesAreBaseThenFragments ==
    (pc = "done" /\ output_file # NoFile) =>
        output_file.fields["route"].fields["routes"].items
            = BaseChildRoutes \o FragmentRoutesUpTo(Len(fragment_files))

(***************************************************************************)
(* Further claims about the ConfigManager methods, checked under SpecApi.  *)
(***************************************************************************)

\* the positions (from 1) of the webhook endpoints of a receiver definition
\* that have no url or an empty one
EndpointsWithoutUrl(receiver_data) ==
    IF ~HasKey(receiver_data, "webhook_configs") THEN {}
    ELSE {i \in 1..Len(receiver_data.fields["webhook_configs"].items) :
             LET webhook_config == receiver_data.fields["webhook_configs"].items[i]
             IN  ~HasKey(webhook_config, "url") \/ Falsy(webhook_config.fields["url"])}

\* whether the definition's webhook_configs, if any, is a list of mappings
EndpointsAreMappings(receiver_data) ==
    HasKey(receiver_data, "webhook_configs") =>
        /\ IsList(receiver_data.fields["webhook_configs"])
        /\ \A i \in 1..Len(receiver_data.fields["webhook_configs"].items) :
              IsDict(receiver_data.fields["webhook_configs"].items[i])

\* C18: a call of _add_receiver_to_master_list with a non-empty string name
\* that is not registered, whose webhook endpoints are mappings, appends the
\* definition and its source to the registry and keeps the other entries;
\* it appends one "Error:" issue per endpoint without a url or with an empty
\* one, in endpoint order, naming the endpoint's index, the receiver and the
\* file, and no other issue, so none when every endpoint has a url.
C18_InvalidContentStillRegistered ==
    [][(call'.op = "add_receiver"
            /\ IsStr(DictGet(call'.receiver_data, "name"))
            /\ DictGet(call'.receiver_data, "name").s # ""
            /\ DictGet(call'.receiver_data, "name").s
                  \notin RegistryNames(all_defined_receivers)
            /\ EndpointsAreMappings(call'.receiver_data)) =>
          LET receiver_name == DictGet(call'.receiver_data, "name")
              bad == EndpointsWithoutUrl(call'.receiver_data)
          IN  /\ all_defined_receivers' =
                     Append(all_defined_receivers,
                            [name |-> receiver_name.s, data |-> call'.receiver_data,
                             source_file |-> call'.source_file])
              /\ SubSeq(validation_issues', 1, Len(validation_issues)) = validation_issues
              /\ Len(NewIssues) = Cardinality(bad)
              /\ \A k \in 1..Len(NewIssues) :
                    /\ StartsWithError(NewIssues[k])
                    /\ \E i \in bad :
                          /\ NewIssues[k] =
                                 WebhookUrlIssue(i - 1, receiver_name, call'.source_file)
                          /\ Cardinality({j \in bad : j < i}) = k - 1
      ]_vars

\* C18 witness: the last insert registered a receiver two of whose three
\* endpoints have no usable url, and the two issues are the last recorded.
C18_Witness ==
    /\ call.op = "add_receiver"
    /\ EndpointsAreMappings(call.receiver_data)
    /\ Cardinality(EndpointsWithoutUrl(call.receiver_data)) = 2
    /\ Len(call.receiver_data.fields["webhook_configs"].items) = 3
    /\ Len(validation_issues) = 2
    /\ \A k \in 1..2 : validation_issues[k].kind = "webhook_config_missing_url"
    /\ all_defined_receivers # <<>>
    /\ LET last == all_defined_receivers[Len(all_defined_receivers)]
       IN  last.data = call.receiver_data /\ last.source_file = call.source_file

(***************************************************************************)
(* Claims about matchers, checked under SpecEval.                          *)
(***************************************************************************)

\* whether one of the node's matchers strings cannot be parsed or has an
\* invalid regex operand, or one of its match_re patterns is invalid
BadCriteria(route) ==
    \/ \E i \in 1..Len(route.matchers) : route.matchers[i] \in BadMatchers
    \/ \E key \in DOMAIN route.match_re : RegexInvalid(route.match_re[key])

\* the route document without the i-th child of its root
WithoutChild(data, i) ==
    [data EXCEPT !.routes = SubSeq(@, 1, i - 1) \o SubSeq(@, i + 1, Len(@))]

\* C19: after evaluate_alert, a node with a matchers string that cannot be
\* parsed or with an invalid regex operand was visited (when its parent
\* reached it) but neither it nor any node below it added a receiver, nothing
\* below it was visited, and for such a child of the root the result is the
\* result of evaluating the tree without that child: its siblings and the
\* root's receiver are evaluated as if it had simply not matched.
C19_BadMatcherNodeNeverMatches ==
    epc = "evaluated" =>
        \A p \in PathsOf(root_route) :
            BadCriteria(NodeAt(root_route, p)) =>
                /\ \A q \in added : ~IsPrefix(p, q)
                /\ \A q \in Range(visited) : IsPrefix(p, q) => q = p
                /\ Len(p) = 1 =>
                      /\ p \in Range(visited)
                      /\ receivers =
                             evaluate_alert(Route(WithoutChild(route_data, p[1]), TRUE),
                                            alert_labels).receivers

\* C19 witness: an alert that satisfies the valid criteria of a node which
\* also has an invalid regex or an unparsable matcher; the node was visited
\* and added nothing, and its sibling was evaluated and added its receiver.
C19_Witness ==
    /\ epc = "evaluated"
    /\ <<1>> \in PathsOf(root_route)
    /\ LET n == NodeAt(root_route, <<1>>)
       IN  /\ BadCriteria(n)
           /\ \/ n.match # EmptyDict /\ \A key \in DOMAIN n.match :
                                            Get(alert_labels, key, "") = n.match[key]
              \/ Len(n.matchers) = 2 /\ n.matchers[1] \notin BadMatchers
                                     /\ evaluate_matcher_string(n.matchers[1], alert_labels)
    /\ <<1>> \in Range(visited)
    /\ <<2>> \in added
    /\ receivers = <<"slack">>

\* what "label OP value" decides for an alert whose label has value
\* alert_value
MatcherMeaning(op, value, alert_value) ==
    CASE op = <<"=">>      -> Chars(alert_value) = value
      [] op = <<"!", "=">> -> Chars(alert_value) # value
      [] op = <<"=", "~">> -> re_search(value, alert_value)
      [] op = <<"!", "~">> -> ~re_search(value, alert_value)

\* C20: a node whose only criterion is the matchers string "severity OP
\* value", with or without spaces in front, around the operator and after
\* the value, and with or without double quotes around the value, matches an
\* alert exactly when OP holds between the alert's severity and the value.
C20_WhitespaceAndQuotesInsignificant ==
    epc = "evaluated" =>
        \A l \in 0..1, a \in 0..1, b \in 0..1, c \in 0..1, q \in BOOLEAN,
           op \in MatcherOperators, value \in MatcherValues :
            route_data = MatcherDoc(MatcherString(l, "severity", a, op, b, q, value, c)) =>
                ((<<1>> \in added)
                    <=> MatcherMeaning(op, value, Get(alert_labels, "severity", "")))

(***************************************************************************)
(* Claims about the defaults, the order and the emptiness of the result,   *)
(* checked under SpecEval.                                                 *)
(***************************************************************************)

\* the node document at path p of a route document
RECURSIVE DocAt(_, _)
DocAt(data, p) ==
    IF p = <<>> THEN data ELSE DocAt(data["routes"][Head(p)], Tail(p))

\* the paths of the nodes whose document has no receiver field
NodesWithoutReceiver ==
    {p \in PathsOf(root_route) : "receiver" \notin DOMAIN DocAt(route_data, p)}

\* C21 as stated: a non-root node without a receiver field has an empty
\* receiver, so such a node never adds the name "default" to the result.
C21_NonRootDefaultsToEmpty ==
    \A p \in NodesWithoutReceiver :
        p # <<>> =>
            /\ NodeAt(root_route, p).receiver = ""
            /\ ~(epc = "evaluated" /\ p \in added
                    /\ NodeAt(root_route, p).receiver = "default")

\* C21 amended: every node without a receiver field, root or not, has the
\* receiver "default", every node with one has the receiver written, and a
\* node without a receiver field that adds its receiver puts "default" in
\* the result.
C21_EveryNodeDefaultsToDefault ==
    /\ \A p \in PathsOf(root_route) :
          NodeAt(root_route, p).receiver =
              (IF p \in NodesWithoutReceiver THEN "default"
               ELSE DocAt(route_data, p)["receiver"])
    /\ epc = "evaluated" =>
          \A p \in NodesWithoutReceiver \cap added : "default" \in Range(receivers)

\* C21 witness: the root is suppressed by a stopping child, the only nodes
\* that add are non-root nodes without a receiver field, and "default" is
\* the result.
C21_Witness ==
    /\ epc = "evaluated"
    /\ <<>> \notin added
    /\ added # {}
    /\ added \subseteq NodesWithoutReceiver
    /\ receivers = <<"default">>

\* Python's order on the receiver names of the model: a < b
AscendingPairs ==
    {<<"", "default">>, <<"", "email">>, <<"", "pagerduty">>, <<"", "slack">>,
     <<"default", "email">>, <<"default", "pagerduty">>, <<"default", "slack">>,
     <<"email", "pagerduty">>, <<"email", "slack">>,
     <<"pagerduty", "slack">>}

\* C22: the list evaluate_alert returns is strictly ascending in string
\* order, so no name occurs twice, and its elements are exactly the
\* receivers of the nodes that added theirs, whatever the order in which
\* the tree declares them; the tree slack, [email, slack, email] returns
\* email, slack.
C22_ResultSortedWithoutRepeats ==
    epc = "evaluated" =>
        /\ \A i, j \in 1..Len(receivers) :
              i < j => <<receivers[i], receivers[j]>> \in AscendingPairs
        /\ Range(receivers) = {NodeAt(root_route, q).receiver : q \in added}
        /\ route_data = UnorderedRepeatDoc => receivers = <<"email", "slack">>

\* C22 witness: two nodes that added carry the same name, and a node that
\* added was visited before another whose name sorts before its own.
C22_Witness ==
    /\ epc = "evaluated"
    /\ \E p, q \in added :
          p # q /\ NodeAt(root_route, p).receiver = NodeAt(root_route, q).receiver
    /\ \E i, j \in 1..Len(visited) :
          /\ i < j
          /\ visited[i] \in added
          /\ visited[j] \in added
          /\ <<NodeAt(root_route, visited[j]).receiver,
               NodeAt(root_route, visited[i]).receiver>> \in AscendingPairs
    /\ Len(receivers) < Cardinality(added)

(***************************************************************************)
(* Claims about the command line, checked under SpecCli.                   *)
(***************************************************************************)

\* C23: when a tree, eval or render command has ended the process, the exit
\* code is the value the command function returned, and it is 1 when the
\* file to read is missing or cannot be parsed.
C23_ExitCodeIsCommandResult ==
    (pc = "exited" /\ argv.command \in {"tree", "eval", "render"}) =>
        /\ rc # NoRc => exit_code = rc
        /\ base_file \in {MissingFile, YamlErrorFile} => exit_code = 1

(***************************************************************************)
(* Claims about stopping children, checked under SpecEval.                 *)
(***************************************************************************)

\* whether path q lies strictly below path p
Below(p, q) == IsPrefix(p, q) /\ Len(q) > Len(p)

\* C24: when a visited node n matches the alert and its first child that
\* matches with continue = false is child k, every child up to k is
\* evaluated, no node in the subtree of a later child is evaluated or adds
\* a receiver, and each matching child before k still has a receiver of its
\* subtree in the result.
C24_LaterSiblingsNeverEvaluated ==
    epc = "evaluated" =>
        \A p \in Range(visited) :
            LET n == NodeAt(root_route, p)
                S == StoppingChildren(n, alert_labels)
            IN  (matches_alert(n, alert_labels) /\ S # {}) =>
                  /\ \A q \in PathsOf(root_route) :
                        (Below(p, q) /\ q[Len(p) + 1] > SetMin(S)) =>
                            q \notin Range(visited) /\ q \notin added
                  /\ \A i \in 1..SetMin(S) : Append(p, i) \in Range(visited)
                  /\ \A i \in 1..(SetMin(S) - 1) :
                        matches_alert(n.routes[i], alert_labels) =>
                            \E q \in added :
                                /\ IsPrefix(Append(p, i), q)
                                /\ NodeAt(root_route, q).receiver \in Range(receivers)

\* C24 witness: the second child stops its parent after the first child
\* contributed, and a third child that matches the alert is never evaluated.
C24_Witness ==
    /\ epc = "evaluated"
    /\ \E p \in Range(visited) :
          LET n == NodeAt(root_route, p)
              S == StoppingChildren(n, alert_labels)
          IN  /\ matches_alert(n, alert_labels)
              /\ S # {}
              /\ SetMin(S) = 2
              /\ Append(p, 1) \in added
              /\ Len(n.routes) >= 3
              /\ matches_alert(n.routes[3], alert_labels)
              /\ Append(p, 3) \notin Range(visited)
              /\ n.routes[1].receiver \in Range(receivers)
              /\ n.routes[3].receiver \notin Range(receivers)

\* the paths p along which every non-root node matches the alert with
\* continue = false and has no matching sibling before it, below a matching
\* root, and whose last node has no matching child
StoppingChainEnds ==
    {p \in PathsOf(root_route) :
        /\ p # <<>>
        /\ matches_alert(root_route, alert_labels)
        /\ \A j \in 1..Len(p) :
              LET parent == NodeAt(root_route, SubSeq(p, 1, j - 1))
              IN  /\ matches_alert(parent.routes[p[j]], alert_labels)
                  /\ ~parent.routes[p[j]].continue_flag
                  /\ \A i \in 1..(p[j] - 1) :
                        ~matches_alert(parent.routes[i], alert_labels)
        /\ \A i \in 1..Len(NodeAt(root_route, p).routes) :
              ~matches_alert(NodeAt(root_route, p).routes[i], alert_labels)}

RegistryWellFormed(registry) ==
    /\ \A i, j \in 1..Len(registry) : registry[i].name = registry[j].name => i = j
    /\ \A i \in 1..Len(registry) :
          /\ registry[i].name # ""
          /\ HasKey(registry[i].data, "name")
          /\ registry[i].data.fields["name"] = YStr(registry[i].name)

\* C26: after any sequence of insertions the registry holds no two entries
\* of one name, and every key is a non-empty string equal to the name field
\* of the stored definition; every step keeps the entries there are, with
\* their definitions and sources, and a step adds at most one entry, under a
\* name that was not there, holding the inserted definition and the source
\* of that insertion. So each source recorded is that of the first
\* insertion of the name.
C26_RegistryKeepsFirstInsertion ==
    /\ [] RegistryWellFormed(all_defined_receivers)
    /\ [][\/ all_defined_receivers' = all_defined_receivers
          \/ /\ call'.op = "add_receiver"
             /\ Len(all_defined_receivers') = Len(all_defined_receivers) + 1
             /\ SubSeq(all_defined_receivers', 1, Len(all_defined_receivers))
                   = all_defined_receivers
             /\ LET entry == all_defined_receivers'[Len(all_defined_receivers')]
                IN  /\ entry.name \notin RegistryNames(all_defined_receivers)
                    /\ entry.data = call'.receiver_data
                    /\ entry.source_file = call'.source_file
        ]_vars

\* C26 witness: entries of two sources are registered, an insertion without
\* a valid name was rejected, and an insertion of a name already there,
\* coming from the other source, was reported and left the first source in
\* place.
C26_Witness ==
    /\ call.op = "add_receiver"
    /\ \E i, j \in 1..Len(all_defined_receivers) :
          all_defined_receivers[i].source_file # all_defined_receivers[j].source_file
    /\ Len(validation_issues) = 2
    /\ validation_issues[1].kind \in {"receiver_missing_name", "receiver_invalid_name"}
    /\ validation_issues[2].kind = "duplicate_receiver"
    /\ validation_issues[2].source_file = call.source_file
    /\ RegistryEntry(all_defined_receivers, validation_issues[2].receiver).source_file
          # call.source_file

\* C27: every step of an assembly pass (the base load with its environment
\* substitution, the insertion and validation of the base's receivers, the
\* load of a fragment file, the validation of the collected routes, the
\* time-interval merge, the final check) leaves the issues recorded so far
\* at the front of the issue sequence, in their order: the sequence only
\* grows.
C27_IssueSequenceOnlyGrows ==
    [][/\ Len(validation_issues') >= Len(validation_issues)
       /\ SubSeq(validation_issues', 1, Len(validation_issues)) = validation_issues
      ]_vars

\* C27 witness: a finished pass whose issue sequence holds issues of four
\* kinds, recorded by the base load, a fragment load and the reference
\* validation.
C27_Witness ==
    /\ pc \in Returned
    /\ Len(validation_issues) >= 4
    /\ Cardinality({validation_issues[i].kind : i \in 1..Len(validation_issues)}) >= 4
    /\ \E i, j \in 1..Len(validation_issues) :
          /\ i < j
          /\ validation_issues[i].source_file = BasePath
          /\ validation_issues[j].source_file # BasePath
          /\ validation_issues[j].kind = "unresolved_receiver"

\* the mapping nodes of a route subtree with the path label the validator
\* gives each: the node itself and, where its routes are a list, the nodes of
\* the mappings in it
RECURSIVE MappingNodes(_, _)
MappingNodes(route_node, path) ==
    {[node |-> route_node, path |-> path]}
    \cup (IF HasKey(route_node, "routes") /\ IsList(route_node.fields["routes"])
          THEN UNION {IF IsDict(route_node.fields["routes"].items[i])
                      THEN MappingNodes(route_node.fields["routes"].items[i],
                                        SubRoutePath(path, i - 1))
                      ELSE {}
                      : i \in 1..Len(route_node.fields["routes"].items)}
          ELSE {})

\* whether the node has a receiver field that is not a non-empty string
ReceiverInvalid(route_node) ==
    /\ HasKey(route_node, "receiver")
    /\ \/ ~IsStr(route_node.fields["receiver"])
       \/ route_node.fields["receiver"] = YStr("")

\* whether path label q names a node strictly below the node path label p names
PathBelow(p, q) ==
    p.head = q.head /\ Len(q.idx) > Len(p.idx) /\ IsPrefix(p.idx, q.idx)

\* C28: in a call of _validate_route_receiver_reference, a node with an
\* invalid or empty receiver that lies below no other such node gets exactly
\* one invalid-receiver issue and no unresolved-reference issue; no issue at
\* all is recorded for the nodes below it, whatever they reference; and
\* every other node that is below no such node and names an unregistered
\* receiver gets its unresolved-reference issue, also when its parent's
\* receiver is unresolved.
C28_InvalidReceiverStopsDescent ==
    [][(call'.op = "validate_route") =>
          LET nodes == MappingNodes(call'.route_node, call'.path)
              Covered(n) == \E m \in nodes :
                                ReceiverInvalid(m.node) /\ PathBelow(m.path, n.path)
              At(path) == {i \in 1..Len(NewIssues) : NewIssues[i].path = path}
          IN  \A n \in nodes :
                /\ (ReceiverInvalid(n.node) /\ ~Covered(n)) =>
                      /\ Cardinality(At(n.path)) = 1
                      /\ \A i \in At(n.path) :
                            NewIssues[i] = InvalidReceiverRefIssue(n.path, call'.source_file)
                /\ Covered(n) => At(n.path) = {}
                /\ (/\ ~ReceiverInvalid(n.node)
                    /\ ~Covered(n)
                    /\ HasKey(n.node, "receiver")
                    /\ n.node.fields["receiver"].s
                          \notin RegistryNames(all_defined_receivers)) =>
                      \E i \in At(n.path) :
                          NewIssues[i] = UnresolvedIssue(n.node.fields["receiver"].s,
                                                         n.path, call'.source_file)
      ]_vars

\* C28 witness: the validated root names an unregistered receiver; its first
\* child has an empty receiver and a child naming an unregistered receiver,
\* its second child names an unregistered receiver. The issues are the
\* root's unresolved reference, the first child's invalid receiver and the
\* second child's unresolved reference.
C28_Witness ==
    /\ call.op = "validate_route"
    /\ call.route_node =
          RouteNodeWith("ghost", <<RouteNodeWith("", <<RouteNode("ghost")>>),
                                   RouteNode("ghost")>>)
    /\ "ghost" \notin RegistryNames(all_defined_receivers)
    /\ Len(validation_issues) >= 3
    /\ SubSeq(validation_issues, Len(validation_issues) - 2, Len(validation_issues)) =
          <<UnresolvedIssue("ghost", call.path, call.source_file),
            InvalidReceiverRefIssue(SubRoutePath(call.path, 0), call.source_file),
            UnresolvedIssue("ghost", SubRoutePath(call.path, 1), call.source_file)>>

(***************************************************************************)
(* Claims about the result as a whole, checked under SpecEval.             *)
(***************************************************************************)

\* C29: evaluate_alert returns the empty list exactly when the root does not
\* match the alert. When the root does not match, only the root was
\* evaluated; when it matches, some node added its receiver, also when the
\* root did not.
C29_EmptyIffRootDoesNotMatch ==
    epc = "evaluated" =>
        /\ (receivers = <<>>) <=> ~matches_alert(root_route, alert_labels)
        /\ ~matches_alert(root_route, alert_labels) =>
              visited = << <<>> >> /\ added = {}
        /\ matches_alert(root_route, alert_labels) => added # {}

\* C29 witness: the root matches and neither it nor its stopping child added
\* a receiver, as a grandchild stopped the child; the result is not empty.
C29_Witness ==
    /\ epc = "evaluated"
    /\ matches_alert(root_route, alert_labels)
    /\ <<>> \notin added
    /\ \E i \in StoppingChildren(root_route, alert_labels) :
          /\ <<i>> \in Range(visited)
          /\ <<i>> \notin added
    /\ receivers # <<>>

\* the keys Route.__init__ reads from a node document
RouteFields == {"receiver", "match", "match_re", "matchers", "continue", "routes"}

\* whether the document is a whole configuration: its tree is under the key
\* "route" and none of the route fields is at its top level
WholeConfiguration(data) ==
    "route" \in DOMAIN data /\ DOMAIN data \cap RouteFields = {}

====
